---- MODULE Spec2Model ----
(***************************************************************************)
(* Vote submission and eligibility engine of the polling application.     *)
(*                                                                         *)
(* The state is the relational store (polls, poll_options, votes, with    *)
(* the row-level-security policies, constraints and the vote-count         *)
(* trigger of the main schema) and a fixed number of request slots, each   *)
(* running one call of an operation of the application.  A call is cut     *)
(* into one action per storage round trip, so that calls interleave at     *)
(* exactly the points where the code awaits the store.                     *)
(***************************************************************************)
EXTENDS Integers, Sequences, FiniteSets, TLC

(***************************************************************************)
(* Bounds.                                                                 *)
(***************************************************************************)
\* number of calls started in one behaviour
MaxRequests == 2
\* longest option id list a caller submits
MaxSel == 2
\* the clock runs from 1 to MaxTime
MaxTime == 2
\* most options in a replacement of a poll's options
NewOptions == 2
\* calls of a rate limit guard in one behaviour
MaxLimitCalls == 4
\* the limiter's clock runs from 1 to MaxClock
MaxClock == 4
\* calls of a guard of the forgery token or of the session in one behaviour
MaxGuardCalls == 1
\* calls of a secured entry point in one behaviour
MaxSecuredCalls == 3
\* longest string handed to constantTimeCompare
MaxTokenLen == 2
\* requests a key may make in one window (config.limit of the endpoint)
RateLimit == 2
\* length of a window in steps of the clock (config.windowMs)
WindowTicks == 2
\* milliseconds in one step of the clock
MsPerTick == 500

(***************************************************************************)
(* Values.                                                                 *)
(***************************************************************************)
NULL == "null"
UNDEFINED == "undefined"
\* polls.end_date IS NULL
NoDate == 0
\* the end date of a poll that has one
EndDate == 1

Users == {"u1", "u2"}
\* x-forwarded-for / x-real-ip as seen by the server; "unknown" when absent
Ips == {"ip1", "unknown"}
PollIds == {"p1", "p2"}
\* ids of the poll_options rows of the initial store
OptionIds == {1, 2, 3}
Slots == {1, 2}
\* the polls that calls name
TargetPolls == {"p1"}

\* A caller: the authenticated session (uid) or none (NULL), and the IP the
\* server derives from the request headers.
Callers ==
  [uid : Users, ip : {"ip1"}] \cup [uid : {NULL}, ip : Ips]

\* Option id lists of length 0..MaxSel over ids (duplicates included).
SelectionsOver(ids) ==
  UNION {[1..n -> ids] : n \in 0..MaxSel}

VARIABLES polls, poll_options, votes, optionSeq, now, req, calls,
          profiles, store, limitLog

\* What a caller may submit: lists over the option ids of the initial store
\* (some of them stale by now) and of the current one.
Selections ==
  SelectionsOver(OptionIds \cup {o.id : o \in poll_options})

vars == <<polls, poll_options, votes, optionSeq, now, req, calls,
          profiles, store, limitLog>>

\* The profiles table and the rate limiter, which the poll and vote
\* operations leave alone.
sessionVars == <<profiles, store, limitLog>>

(***************************************************************************)
(* The store: schema, constraints, policies, trigger.                      *)
(***************************************************************************)
NoError == [code |-> "", message |-> ""]
\* PostgREST: .single() found no row
PGRST116 == [code |-> "PGRST116", message |-> "JSON object requested, multiple (or no) rows returned"]
\* unique_violation
E23505 == [code |-> "23505", message |-> "duplicate key value violates unique constraint"]
\* foreign_key_violation
E23503 == [code |-> "23503", message |-> "insert or update on table violates foreign key constraint"]
\* insufficient_privilege raised by a WITH CHECK policy
E42501 == [code |-> "42501", message |-> "new row violates row-level security policy for table"]
\* invalid_text_representation: a text that is no INET value
E22P02 == [code |-> "22P02", message |-> "invalid input syntax for type inet"]

\* The texts among 'duplicate key', 'permission denied', 'timeout' that occur in
\* a message of the store.
Needles(message) ==
  IF message = E23505.message THEN {"duplicate key"}
  ELSE IF message = "permission denied for table polls" THEN {"permission denied"}
  ELSE IF message = "canceling statement due to statement timeout" THEN {"timeout"}
  ELSE IF message = "duplicate key value, permission denied"
    THEN {"duplicate key", "permission denied"}
  ELSE IF message = "permission denied after lock timeout"
    THEN {"permission denied", "timeout"}
  ELSE {}

\* query_canceled: the statement timeout ran out
E57014 == [code |-> "57014", message |-> "canceling statement due to statement timeout"]

StoreErrors == {PGRST116, E23505, E23503, E42501, E22P02}

\* Messages of errors that reach a catch block, beside the store's: of the
\* database with another code or none, and of the runtime ('Timeout' with a
\* capital letter is not 'timeout').
OtherMessages ==
  {"permission denied for table polls", "canceling statement due to statement timeout",
   "duplicate key value, permission denied", "permission denied after lock timeout",
   "Connection Timeout", "Some random error"}

\* The fixed parts of the messages the operations build around a store message.
MessagePrefixes ==
  {"", "Failed to submit votes: ", "Failed to vote: ", "Poll not found: ",
   "Failed to create new poll options: "}

\* String.prototype.includes, on the messages built from store messages.
Includes(message, needle) ==
  \E m \in {e.message : e \in StoreErrors} \cup OtherMessages, prefix \in MessagePrefixes :
    /\ message = prefix \o m
    /\ needle \in Needles(m)

\* String.prototype.startsWith on the error codes in use.
StartsWith(code, prefix) ==
  \/ prefix = "23" /\ code \in {"23505", "23503"}
  \/ prefix = "42" /\ code \in {"42501", "42P01"}
  \/ prefix = "DATABASE_ERROR" /\ code = "DATABASE_ERROR"

\* voter_ip INET: the text converts to an INET value.
IsInet(ip) == ip # "unknown"

\* Policies "Anyone can view active polls" and "Users can view their own polls".
PollsSelectPolicy(P, p, uid) ==
  /\ P[p].exists
  /\ (P[p].status \in {"active", "ended"} \/ P[p].author_id = uid)

\* Policy "Users can vote on polls"; its subquery on polls runs under the
\* caller's own view of polls.
VotesInsertPolicy(P, row, uid) ==
  /\ row.poll_id \in PollIds
  /\ PollsSelectPolicy(P, row.poll_id, uid)
  /\ (~P[row.poll_id].require_login \/ uid # NULL)

\* votes has row level security enabled and no policy FOR DELETE.
VotesDeletePolicy(row, uid) == FALSE

\* Mutant: one vote per option and poll, whoever the voter.
UniqueConflictAnyVoter(a, b) ==
  /\ a.poll_id = b.poll_id
  /\ a.option_id = b.option_id

\* UNIQUE(poll_id, option_id, voter_id), UNIQUE(poll_id, option_id, voter_ip);
\* a NULL never equals a NULL.
UniqueConflict(a, b) ==
  /\ a.poll_id = b.poll_id
  /\ a.option_id = b.option_id
  /\ \/ a.voter_id # NULL /\ a.voter_id = b.voter_id
     \/ a.voter_ip # NULL /\ a.voter_ip = b.voter_ip

\* REFERENCES polls(id), REFERENCES poll_options(id).
VotesForeignKeys(P, O, row) ==
  /\ row.poll_id \in PollIds /\ P[row.poll_id].exists
  /\ \E o \in O : o.id = row.option_id

\* Trigger update_vote_counts, AFTER INSERT, for one row.
TriggerInsertPolls(P, row) ==
  [p \in PollIds |->
     IF p = row.poll_id /\ P[p].exists
       THEN [P[p] EXCEPT !.total_votes = @ + 1] ELSE P[p]]

TriggerInsertOptions(O, row) ==
  {IF o.id = row.option_id THEN [o EXCEPT !.votes = @ + 1] ELSE o : o \in O}

\* Mutant: the trigger does not run on DELETE.
TriggerDeletePollsSkipped(P, row) == P

\* Trigger update_vote_counts, AFTER DELETE, for one row.
TriggerDeletePolls(P, row) ==
  [p \in PollIds |->
     IF p = row.poll_id /\ P[p].exists
       THEN [P[p] EXCEPT !.total_votes = @ - 1] ELSE P[p]]

TriggerDeleteOptions(O, row) ==
  {IF o.id = row.option_id THEN [o EXCEPT !.votes = @ - 1] ELSE o : o \in O}

\* The error of INSERT INTO votes of the rows of one statement, NoError if
\* it commits: conversion of the values, then row by row the policy and the
\* unique indexes, then the foreign keys at the end of the statement.
InsertVotesError(P, O, V, rows, uid) ==
  IF \E i \in 1..Len(rows) : rows[i].voter_ip # NULL /\ ~IsInet(rows[i].voter_ip)
    THEN E22P02
  ELSE IF \E i \in 1..Len(rows) : ~VotesInsertPolicy(P, rows[i], uid)
    THEN E42501
  ELSE IF \E i \in 1..Len(rows) :
            \/ \E v \in V : UniqueConflict(rows[i], v)
            \/ \E j \in 1..(i - 1) : UniqueConflict(rows[i], rows[j])
    THEN E23505
  ELSE IF \E i \in 1..Len(rows) : ~VotesForeignKeys(P, O, rows[i])
    THEN E23503
  ELSE NoError

MaxId(V) == IF V = {} THEN 0 ELSE CHOOSE m \in {v.id : v \in V} : \A v \in V : v.id <= m

\* The store after the first n rows of a committed INSERT and their trigger.
RECURSIVE InsertRows(_, _, _, _, _)
InsertRows(P, O, V, rows, n) ==
  IF n = 0 THEN [polls |-> P, poll_options |-> O, votes |-> V]
  ELSE LET db  == InsertRows(P, O, V, rows, n - 1)
           row == [id |-> MaxId(db.votes) + 1,
                   poll_id |-> rows[n].poll_id,
                   option_id |-> rows[n].option_id,
                   voter_id |-> rows[n].voter_id,
                   voter_ip |-> rows[n].voter_ip]
       IN [polls |-> TriggerInsertPolls(db.polls, row),
           poll_options |-> TriggerInsertOptions(db.poll_options, row),
           votes |-> db.votes \cup {row}]

\* Mutant: the rows are inserted one statement each, up to the first error.
InsertVotesRowByRow(P, O, V, rows, uid) ==
  LET ok == {n \in 0..Len(rows) : InsertVotesError(P, O, V, SubSeq(rows, 1, n), uid) = NoError}
      n  == CHOOSE m \in ok : \A k \in ok : k <= m
  IN [error |-> InsertVotesError(P, O, V, rows, uid),
      db |-> InsertRows(P, O, V, rows, n)]

\* supabase.from('votes').insert(rows): one statement, all rows or none.
InsertVotes(P, O, V, rows, uid) ==
  LET err == InsertVotesError(P, O, V, rows, uid)
  IN IF err = NoError
       THEN [error |-> NoError, db |-> InsertRows(P, O, V, rows, Len(rows))]
       ELSE [error |-> err, db |-> [polls |-> P, poll_options |-> O, votes |-> V]]

\* The store after DELETE of the votes rows `rows` (by a statement or by a
\* cascade) and the trigger of each.
RECURSIVE DeleteRows(_, _, _, _)
DeleteRows(P, O, V, rows) ==
  IF rows = {} THEN [polls |-> P, poll_options |-> O, votes |-> V]
  ELSE LET row == CHOOSE r \in rows : TRUE
       IN DeleteRows(TriggerDeletePolls(P, row), TriggerDeleteOptions(O, row),
                     V \ {row}, rows \ {row})

\* Policy "Poll authors can manage options" (FOR ALL).
PollOptionsManagePolicy(P, pollId, uid) ==
  /\ PollsSelectPolicy(P, pollId, uid)
  /\ P[pollId].author_id = uid

\* Policy "Users can delete their own polls".
PollsDeletePolicy(P, pollId, uid) == P[pollId].exists /\ P[pollId].author_id = uid

\* DELETE FROM poll_options WHERE poll_id = p: the rows the policy lets the
\* caller delete, and by ON DELETE CASCADE the votes on them.
DeletePollOptions(P, O, V, pollId, uid) ==
  LET gone == {o \in O : o.poll_id = pollId /\ PollOptionsManagePolicy(P, pollId, uid)}
      ids  == {o.id : o \in gone}
  IN DeleteRows(P, O \ gone, V, {v \in V : v.option_id \in ids})

\* A polls row that was deleted.
DeletedPoll ==
  [exists |-> FALSE, author_id |-> NULL, status |-> NULL, allow_multiple_votes |-> FALSE,
   require_login |-> FALSE, end_date |-> NoDate, total_votes |-> 0]

\* DELETE FROM polls WHERE id = p, with the cascade to poll_options and votes.
DeletePoll(P, O, V, pollId, uid) ==
  IF ~PollsDeletePolicy(P, pollId, uid)
    THEN [polls |-> P, poll_options |-> O, votes |-> V]
  ELSE LET gone == {o \in O : o.poll_id = pollId}
           ids  == {o.id : o \in gone}
       IN DeleteRows([P EXCEPT ![pollId] = DeletedPoll], O \ gone, V,
                     {v \in V : v.poll_id = pollId \/ v.option_id \in ids})

\* .from('polls').select('*').eq('id', p).single()
SelectPoll(P, p, uid) ==
  IF p \in PollIds /\ PollsSelectPolicy(P, p, uid)
    THEN [error |-> NoError, data |-> P[p]]
    ELSE [error |-> PGRST116, data |-> NULL]

\* .from('votes').select('option_id, voter_id').eq('poll_id', p).eq('voter_id', uid)
SelectVotesByVoter(V, p, uid) ==
  [error |-> NoError,
   data |-> {[option_id |-> v.option_id, voter_id |-> v.voter_id, voter_ip |-> UNDEFINED] :
               v \in {w \in V : w.poll_id = p /\ w.voter_id = uid}}]

\* .from('votes').select('option_id, voter_ip').eq('poll_id', p).eq('voter_ip', ip)
SelectVotesByIp(V, p, ip) ==
  IF ~IsInet(ip) THEN [error |-> E22P02, data |-> {}]
  ELSE [error |-> NoError,
        data |-> {[option_id |-> v.option_id, voter_id |-> UNDEFINED, voter_ip |-> v.voter_ip] :
                    v \in {w \in V : w.poll_id = p /\ w.voter_ip = ip}}]

(***************************************************************************)
(* Errors and responses (lib/types/error.ts).                              *)
(***************************************************************************)
\* A sanitizer that looks at the message before the code.
sanitizeErrorMessageByText(error) ==
  IF Includes(error.message, "duplicate key")
    THEN [code |-> "CONFLICT", message |-> "This resource already exists"]
  ELSE IF Includes(error.message, "permission denied")
    THEN [code |-> "AUTHORIZATION_ERROR",
          message |-> "You do not have permission to perform this action"]
  ELSE IF Includes(error.message, "timeout")
    THEN [code |-> "TIMEOUT_ERROR", message |-> "The request timed out"]
  ELSE IF error.code = "PGRST116"
    THEN [code |-> "NOT_FOUND", message |-> "The requested resource was not found"]
  ELSE IF StartsWith(error.code, "23")
    THEN [code |-> "VALIDATION_ERROR", message |-> "The request contains invalid data"]
  ELSE IF StartsWith(error.code, "42")
    THEN [code |-> "DATABASE_ERROR", message |-> "A database error occurred"]
  ELSE [code |-> "INTERNAL_ERROR", message |-> "An unexpected error occurred"]

\* error?.code and error?.message are UNDEFINED where the value caught has no
\* such property (or is null): no comparison, startsWith or includes holds then.
sanitizeErrorMessage(error) ==
  IF error.code = "PGRST116"
    THEN [code |-> "NOT_FOUND", message |-> "The requested resource was not found"]
  ELSE IF StartsWith(error.code, "23")
    THEN [code |-> "VALIDATION_ERROR", message |-> "The request contains invalid data"]
  ELSE IF StartsWith(error.code, "42")
    THEN [code |-> "DATABASE_ERROR", message |-> "A database error occurred"]
  ELSE IF Includes(error.message, "duplicate key")
    THEN [code |-> "CONFLICT", message |-> "This resource already exists"]
  ELSE IF Includes(error.message, "permission denied")
    THEN [code |-> "AUTHORIZATION_ERROR",
          message |-> "You do not have permission to perform this action"]
  ELSE IF Includes(error.message, "timeout")
    THEN [code |-> "TIMEOUT_ERROR", message |-> "The request timed out"]
  ELSE [code |-> "INTERNAL_ERROR", message |-> "An unexpected error occurred"]

createDatabaseError(message) ==
  [code |-> "DATABASE_ERROR",
   message |-> sanitizeErrorMessage([message |-> message, code |-> "DATABASE_ERROR"]).message]

createNotFoundError(resource) ==
  [code |-> "NOT_FOUND", message |-> "Resource not found: poll"]

createSuccessResponse == [success |-> TRUE, code |-> "", message |-> ""]

createErrorResponse(error) ==
  [success |-> FALSE, code |-> error.code, message |-> error.message]

(***************************************************************************)
(* Identity (lib/auth/utils.ts).                                           *)
(***************************************************************************)
\* An AppUser is always an object; `present` tells it from a null reference.
createAnonymousUser == [present |-> TRUE, id |-> NULL, isAuthenticated |-> FALSE]

createAuthenticatedUser(uid) == [present |-> TRUE, id |-> uid, isAuthenticated |-> TRUE]

\* getCurrentUser for a caller whose profile row exists.
getCurrentUser(caller) ==
  IF caller.uid = NULL THEN createAnonymousUser ELSE createAuthenticatedUser(caller.uid)

(***************************************************************************)
(* Validation (lib/validation/poll.ts).                                    *)
(***************************************************************************)
validateVoteInput(optionIds) ==
  /\ Len(optionIds) # 0
  /\ Cardinality({optionIds[i] : i \in 1..Len(optionIds)}) = Len(optionIds)

\* Mutant: the end date is not looked at.
validateVoteEligibilityNoEndDate(poll, user, existingVotes, clientIp, time) ==
  IF poll.status # "active" THEN "Poll is not active"
  ELSE IF poll.require_login /\ ~user.present THEN "Login required to vote on this poll"
  ELSE IF user.present /\ \E vote \in existingVotes : vote.voter_id = user.id
    THEN "You have already voted on this poll"
  ELSE IF ~user.present /\ \E vote \in existingVotes : vote.voter_ip = clientIp
    THEN "You have already voted from this IP address"
  ELSE ""

\* The first error pushed, "" when the caller can vote.
validateVoteEligibility(poll, user, existingVotes, clientIp, time) ==
  IF poll.status # "active" THEN "Poll is not active"
  ELSE IF poll.end_date # NoDate /\ poll.end_date < time THEN "Poll has ended"
  ELSE IF poll.require_login /\ ~user.present THEN "Login required to vote on this poll"
  ELSE IF user.present /\ \E vote \in existingVotes : vote.voter_id = user.id
    THEN "You have already voted on this poll"
  ELSE IF ~user.present /\ \E vote \in existingVotes : vote.voter_ip = clientIp
    THEN "You have already voted from this IP address"
  ELSE ""

(***************************************************************************)
(* Request slots.                                                          *)
(***************************************************************************)
NoPoll ==
  [status |-> NULL, end_date |-> NoDate, require_login |-> FALSE,
   allow_multiple_votes |-> FALSE]

\* The columns of a polls row that the vote operations read.
PollRow(row) ==
  [status |-> row.status, end_date |-> row.end_date,
   require_login |-> row.require_login,
   allow_multiple_votes |-> row.allow_multiple_votes]

\* A string is the sequence of its characters.  A value of type
\* string | null is [present, chars].
Absent == [present |-> FALSE, chars |-> <<>>]

NoHeaders ==
  [headerFail |-> FALSE, header |-> Absent, cookieFail |-> FALSE, cookie |-> Absent]

\* A stage that did not throw.
Passed == [code |-> "", message |-> ""]

\* new Date(stamp || 0).getTime() of a missing stamp
NoStamp == 0

NoSession ==
  [present |-> FALSE, expires_at |-> NoStamp, created_at |-> NoStamp,
   established |-> NoStamp, lastActivity |-> NoStamp]

NoAnswer ==
  [throws |-> FALSE, userError |-> FALSE, user |-> FALSE, sessionError |-> FALSE,
   session |-> NoSession]

\* What a guarded call has done: the guard's arguments (entry, requireSession),
\* the headers and the auth provider's answer it read and when, the stages
\* that ran, in order, the error thrown, whether the guarded function ran, and
\* whether the caller's key had used up its window when the call was made.
NoGate ==
  [entry |-> "", requireSession |-> FALSE, headers |-> NoHeaders,
   answer |-> NoAnswer, time |-> 0, stages |-> <<>>, error |-> Passed, ran |-> FALSE,
   overLimit |-> FALSE]

\* No options, no votes.
NoSnapshot == [options |-> {}, votes |-> {}, total |-> 0]

\* No strings compared.
NoCompared == [a |-> <<>>, b |-> <<>>, equal |-> FALSE]

\* An UpdatePollInput with no key.
NoInput == [status |-> UNDEFINED]

\* The outcome of a rate limit guard that has not run.
NoLimit ==
  [key |-> "", failed |-> FALSE, success |-> TRUE, remaining |-> 0, resetTime |-> 0,
   through |-> FALSE, hasRetryAfter |-> FALSE, retryAfter |-> 0]

\* Fields pc .. result are the call's own variables.  The others record, for
\* the properties, what was true when the call was made (prior: the caller's
\* identity had votes rows on the poll; seen: the polls row as the caller
\* could read it; t0: the clock), the identities of the calls that ran during
\* this one (rivals), the code of the store's error to its insert (storeError)
\* and the number of votes rows it inserted (wrote).  data is the payload of
\* a successful read, user the AppUser that getCurrentUser returned, guard
\* the outcome of a rate limit guard, gate what a guarded call has done,
\* input the UpdatePollInput of an update of a poll, caught the value handed
\* to sanitizeErrorMessage, lookup the error of the query for the caller's
\* prior votes, before the options, votes and total_votes of the poll when an
\* update of its options was called, compared the two strings handed to
\* constantTimeCompare and its answer.
IdleReq ==
  [pc |-> "idle", op |-> "none", uid |-> NULL, ip |-> "ip1", pollId |-> "p1",
   optionIds |-> <<>>, n |-> 0, poll |-> NoPoll, result |-> createSuccessResponse,
   prior |-> FALSE, seen |-> NoPoll, t0 |-> 0, rivals |-> {},
   storeError |-> "", wrote |-> 0, data |-> {},
   user |-> createAnonymousUser, guard |-> NoLimit, gate |-> NoGate, input |-> NoInput,
   caught |-> NoError, lookup |-> NoError, before |-> NoSnapshot,
   compared |-> NoCompared]

InFlight(r) == r.pc \notin {"idle", "done"}

CanCall(s) ==
  /\ ~InFlight(req[s])
  /\ calls < MaxRequests

\* The votes rows of a caller's identity on a poll: by user id for a session,
\* by IP without one.
IdentityVotes(V, pollId, caller) ==
  {v \in V : /\ v.poll_id = pollId
             /\ IF caller.uid # NULL
                  THEN v.voter_id = caller.uid
                  ELSE v.voter_id = NULL /\ v.voter_ip = caller.ip}

\* The identity a vote is attributed to: the user id of the session, else the IP.
Identity(caller) == IF caller.uid # NULL THEN caller.uid ELSE caller.ip

Begin(s, op, caller, pollId, optionIds) ==
  [pc |-> "done", op |-> op, uid |-> caller.uid, ip |-> caller.ip, pollId |-> pollId,
   optionIds |-> optionIds, n |-> 0, poll |-> NoPoll, result |-> createSuccessResponse,
   prior |-> IdentityVotes(votes, pollId, caller) # {},
   seen |-> IF PollsSelectPolicy(polls, pollId, caller.uid)
              THEN PollRow(polls[pollId]) ELSE NoPoll,
   t0 |-> now,
   rivals |-> {Identity(req[t]) : t \in {u \in Slots \ {s} : InFlight(req[u])}},
   storeError |-> "", wrote |-> 0, data |-> {},
   user |-> createAnonymousUser, guard |-> NoLimit, gate |-> NoGate, input |-> NoInput,
   caught |-> NoError, lookup |-> NoError, before |-> NoSnapshot,
   compared |-> NoCompared]

\* The slots once slot s holds the new call r.
Started(s, r) ==
  [t \in Slots |->
     IF t = s THEN r
     ELSE IF InFlight(req[t]) THEN [req[t] EXCEPT !.rivals = @ \cup {Identity(r)}]
     ELSE req[t]]

\* The call r after its INSERT INTO votes answered res.
Inserted(r, res, result) ==
  [r EXCEPT !.pc = "done", !.result = result, !.storeError = res.error.code,
            !.wrote = Cardinality(res.db.votes) - Cardinality(votes)]

Finish(r, result) == [r EXCEPT !.pc = "done", !.result = result]

(***************************************************************************)
(* submitVoteOperation (lib/operations/voting.ts).                         *)
(***************************************************************************)
getExistingVotes(V, pollId, user, clientIp) ==
  IF user.isAuthenticated
    THEN SelectVotesByVoter(V, pollId, user.id).data
    ELSE SelectVotesByIp(V, pollId, clientIp).data

\* The call up to the answer of the polls query.
SubmitVoteCall(s, callers, selections) ==
  /\ CanCall(s)
  /\ \E caller \in callers, pollId \in TargetPolls, optionIds \in selections :
       LET r    == Begin(s, "submitVote", caller, pollId, optionIds)
           poll == SelectPoll(polls, pollId, caller.uid)
       IN req' = Started(s,
            IF ~validateVoteInput(optionIds)
              THEN Finish(r, createErrorResponse(
                     [code |-> "VALIDATION_ERROR", message |-> "Invalid vote input"]))
            ELSE IF poll.error # NoError
              THEN Finish(r, createErrorResponse(createNotFoundError("poll")))
            ELSE [r EXCEPT !.pc = "check", !.poll = PollRow(poll.data)])
  /\ calls' = calls + 1
  /\ UNCHANGED <<polls, poll_options, votes, optionSeq, now>>
  /\ UNCHANGED sessionVars

\* From the answer of the votes query to the insert being sent.
SubmitVoteCheck(s) ==
  /\ req[s].pc = "check" /\ req[s].op = "submitVote"
  /\ LET r == req[s]
         user == getCurrentUser(r)
         existingVotes == getExistingVotes(votes, r.pollId, user, r.ip)
         eligibility == validateVoteEligibility(r.poll, user, existingVotes, r.ip, now)
     IN req' = [req EXCEPT ![s] =
          IF eligibility # ""
            THEN Finish(r, createErrorResponse(
                   [code |-> "VOTE_ELIGIBILITY_ERROR", message |-> eligibility]))
          ELSE IF ~r.poll.allow_multiple_votes /\ Len(r.optionIds) > 1
            THEN Finish(r, createErrorResponse(
                   [code |-> "VOTE_VALIDATION_ERROR",
                    message |-> "Multiple votes not allowed on this poll"]))
          ELSE [r EXCEPT !.pc = "insert"]]
  /\ UNCHANGED <<polls, poll_options, votes, optionSeq, now, calls>>
  /\ UNCHANGED sessionVars

\* The same step when the query for the caller's prior votes comes back
\* with an error: getExistingVotes logs it and returns [].
SubmitVoteCheckFailed(s) ==
  /\ req[s].pc = "check" /\ req[s].op = "submitVote"
  /\ LET r == [req[s] EXCEPT !.lookup = E57014]
         user == getCurrentUser(r)
         existingVotes == {}
         eligibility == validateVoteEligibility(r.poll, user, existingVotes, r.ip, now)
     IN req' = [req EXCEPT ![s] =
          IF eligibility # ""
            THEN Finish(r, createErrorResponse(
                   [code |-> "VOTE_ELIGIBILITY_ERROR", message |-> eligibility]))
          ELSE IF ~r.poll.allow_multiple_votes /\ Len(r.optionIds) > 1
            THEN Finish(r, createErrorResponse(
                   [code |-> "VOTE_VALIDATION_ERROR",
                    message |-> "Multiple votes not allowed on this poll"]))
          ELSE [r EXCEPT !.pc = "insert"]]
  /\ UNCHANGED <<polls, poll_options, votes, optionSeq, now, calls>>
  /\ UNCHANGED sessionVars

SubmitVoteRows(r) ==
  LET user == getCurrentUser(r)
  IN [i \in 1..Len(r.optionIds) |->
        [poll_id |-> r.pollId,
         option_id |-> r.optionIds[i],
         voter_id |-> IF user.isAuthenticated THEN user.id ELSE NULL,
         voter_ip |-> IF user.isAuthenticated THEN NULL ELSE r.ip]]

\* The insert and the response.
SubmitVoteInsert(s) ==
  /\ req[s].pc = "insert" /\ req[s].op = "submitVote"
  /\ LET r   == req[s]
         res == InsertVotes(polls, poll_options, votes, SubmitVoteRows(r), r.uid)
     IN /\ polls' = res.db.polls
        /\ poll_options' = res.db.poll_options
        /\ votes' = res.db.votes
        /\ req' = [req EXCEPT ![s] =
             IF res.error # NoError
               THEN Inserted(r, res, createErrorResponse(createDatabaseError(
                      "Failed to submit votes: " \o res.error.message)))
               ELSE Inserted(r, res, createSuccessResponse)]
  /\ UNCHANGED <<optionSeq, now, calls>>
  /\ UNCHANGED sessionVars

\* voteOnPollServer of lib/supabase/factory.ts, once its CSRF and rate limit
\* wrappers have let the call through: the response it makes from the
\* response of submitVoteOperation.
SecuredVoteResponse(result) ==
  IF result.success
    THEN [success |-> TRUE, error |-> NULL]
    ELSE [success |-> FALSE, error |-> sanitizeErrorMessage(result).message]

(***************************************************************************)
(* voteOnPollServer (lib/actions/vote.ts).                                 *)
(***************************************************************************)
\* { success: false, error: new Error(message) }
Thrown(message) == [success |-> FALSE, code |-> "", message |-> message]

\* The checks made on the polls row before any votes query, "" if all pass;
\* `user` is the auth user of the request or absent.
PollChecks(poll, hasUser, optionIds, time) ==
  IF poll.status # "active" THEN "Poll is not active"
  ELSE IF poll.end_date # NoDate /\ poll.end_date < time THEN "Poll has ended"
  ELSE IF poll.require_login /\ ~hasUser THEN "Login required to vote on this poll"
  ELSE IF ~poll.allow_multiple_votes /\ Len(optionIds) > 1
    THEN "Multiple votes not allowed on this poll"
  ELSE ""

\* The call up to the checks on the polls row.
VoteOnPollServerCall(s, callers, selections) ==
  /\ CanCall(s)
  /\ \E caller \in callers, pollId \in TargetPolls, optionIds \in selections :
       LET r      == Begin(s, "voteOnPollServer", caller, pollId, optionIds)
           poll   == SelectPoll(polls, pollId, caller.uid)
           denied == PollChecks(PollRow(poll.data), caller.uid # NULL, optionIds, now)
       IN req' = Started(s,
            IF poll.error # NoError
              THEN Finish(r, Thrown("Poll not found: " \o poll.error.message))
            ELSE IF denied # "" THEN Finish(r, Thrown(denied))
            ELSE IF caller.uid = NULL /\ caller.ip = "unknown"
              THEN [r EXCEPT !.pc = "insert", !.poll = PollRow(poll.data)]
            ELSE [r EXCEPT !.pc = "check", !.poll = PollRow(poll.data)])
  /\ calls' = calls + 1
  /\ UNCHANGED <<polls, poll_options, votes, optionSeq, now>>
  /\ UNCHANGED sessionVars

\* The query for the caller's votes on the poll, by user id or by IP.
VoteOnPollServerCheck(s) ==
  /\ req[s].pc = "check" /\ req[s].op = "voteOnPollServer"
  /\ LET r == req[s]
         existing == IF r.uid # NULL
                       THEN SelectVotesByVoter(votes, r.pollId, r.uid)
                       ELSE SelectVotesByIp(votes, r.pollId, r.ip)
     IN req' = [req EXCEPT ![s] =
          IF existing.data # {}
            THEN Finish(r, Thrown(
                   IF r.uid # NULL
                     THEN "You have already voted on this poll"
                     ELSE "You have already voted on this poll from this IP address"))
            ELSE [r EXCEPT !.pc = "insert"]]
  /\ UNCHANGED <<polls, poll_options, votes, optionSeq, now, calls>>
  /\ UNCHANGED sessionVars

\* Mutant: the row of an authenticated voter records the IP as well.
VoteOnPollServerRowsWithIp(r) ==
  [i \in 1..Len(r.optionIds) |->
     [poll_id |-> r.pollId,
      option_id |-> r.optionIds[i],
      voter_id |-> r.uid,
      voter_ip |-> r.ip]]

VoteOnPollServerRows(r) ==
  [i \in 1..Len(r.optionIds) |->
     [poll_id |-> r.pollId,
      option_id |-> r.optionIds[i],
      voter_id |-> r.uid,
      voter_ip |-> IF r.uid # NULL THEN NULL ELSE r.ip]]

VoteOnPollServerInsert(s) ==
  /\ req[s].pc = "insert" /\ req[s].op = "voteOnPollServer"
  /\ LET r   == req[s]
         res == InsertVotes(polls, poll_options, votes, VoteOnPollServerRows(r), r.uid)
     IN /\ polls' = res.db.polls
        /\ poll_options' = res.db.poll_options
        /\ votes' = res.db.votes
        /\ req' = [req EXCEPT ![s] =
             IF res.error # NoError
               THEN Inserted(r, res, Thrown("Failed to vote: " \o res.error.message))
               ELSE Inserted(r, res, createSuccessResponse)]
  /\ UNCHANGED <<optionSeq, now, calls>>
  /\ UNCHANGED sessionVars

(***************************************************************************)
(* voteOnPoll (lib/api/polls.ts), run in the browser.                      *)
(***************************************************************************)
VoteOnPollCall(s, callers, selections) ==
  /\ CanCall(s)
  /\ \E caller \in {c \in callers : c.ip = "ip1"}, pollId \in TargetPolls,
        optionIds \in selections :
       LET r      == Begin(s, "voteOnPoll", caller, pollId, optionIds)
           poll   == SelectPoll(polls, pollId, caller.uid)
           denied == PollChecks(PollRow(poll.data), caller.uid # NULL, optionIds, now)
       IN req' = Started(s,
            IF poll.error # NoError
              THEN Finish(r, Thrown("Poll not found: " \o poll.error.message))
            ELSE IF denied # "" THEN Finish(r, Thrown(denied))
            ELSE [r EXCEPT !.pc = "insert", !.poll = PollRow(poll.data)])
  /\ calls' = calls + 1
  /\ UNCHANGED <<polls, poll_options, votes, optionSeq, now>>
  /\ UNCHANGED sessionVars

VoteOnPollRows(r) ==
  [i \in 1..Len(r.optionIds) |->
     [poll_id |-> r.pollId,
      option_id |-> r.optionIds[i],
      voter_id |-> r.uid,
      voter_ip |-> NULL]]

VoteOnPollInsert(s) ==
  /\ req[s].pc = "insert" /\ req[s].op = "voteOnPoll"
  /\ LET r   == req[s]
         res == InsertVotes(polls, poll_options, votes, VoteOnPollRows(r), r.uid)
     IN /\ polls' = res.db.polls
        /\ poll_options' = res.db.poll_options
        /\ votes' = res.db.votes
        /\ req' = [req EXCEPT ![s] =
             IF res.error # NoError
               THEN Inserted(r, res, Thrown("Failed to vote: " \o res.error.message))
               ELSE Inserted(r, res, createSuccessResponse)]
  /\ UNCHANGED <<optionSeq, now, calls>>
  /\ UNCHANGED sessionVars

(***************************************************************************)
(* getUserVotesOperation (lib/operations/voting.ts).                       *)
(***************************************************************************)
\* The option ids of the caller's votes on the poll, by user id or by IP.
GetUserVotes(s, callers) ==
  /\ CanCall(s)
  /\ \E caller \in callers, pollId \in TargetPolls :
       LET r    == Begin(s, "getUserVotes", caller, pollId, <<>>)
           user == getCurrentUser(caller)
           res  == IF user.isAuthenticated
                     THEN SelectVotesByVoter(votes, pollId, user.id)
                     ELSE SelectVotesByIp(votes, pollId, caller.ip)
       IN req' = Started(s,
            IF res.error # NoError
              THEN Finish(r, createErrorResponse(createDatabaseError(
                     "Failed to fetch IP votes: " \o res.error.message)))
              ELSE Finish([r EXCEPT !.data = {v.option_id : v \in res.data}],
                          createSuccessResponse))
  /\ calls' = calls + 1
  /\ UNCHANGED <<polls, poll_options, votes, optionSeq, now>>
  /\ UNCHANGED sessionVars

(***************************************************************************)
(* getUserVotesServer (lib/actions/vote.ts), getUserVotesWithIpServer      *)
(* (lib/api/polls-server.ts).                                              *)
(***************************************************************************)
UserVotesServerOps == {"getUserVotesServer", "getUserVotesWithIpServer"}

\* Both functions have the same body: without a user the votes of the
\* client's IP, none if it is 'unknown'; with one the votes of the user.
GetUserVotesServer(s, callers) ==
  /\ CanCall(s)
  /\ \E op \in UserVotesServerOps, caller \in callers, pollId \in TargetPolls :
       LET r   == Begin(s, op, caller, pollId, <<>>)
           res == IF caller.uid = NULL
                    THEN IF caller.ip # "unknown"
                           THEN SelectVotesByIp(votes, pollId, caller.ip)
                           ELSE [error |-> NoError, data |-> {}]
                    ELSE SelectVotesByVoter(votes, pollId, caller.uid)
       IN req' = Started(s,
            IF res.error # NoError
              THEN Finish(r, Thrown((IF caller.uid = NULL
                                       THEN "Failed to fetch IP votes: "
                                       ELSE "Failed to fetch user votes: ")
                                    \o res.error.message))
              ELSE Finish([r EXCEPT !.data = {v.option_id : v \in res.data}],
                          createSuccessResponse))
  /\ calls' = calls + 1
  /\ UNCHANGED <<polls, poll_options, votes, optionSeq, now>>
  /\ UNCHANGED sessionVars

(***************************************************************************)
(* sanitizeErrorMessage applied to a caught value (lib/types/error.ts).    *)
(***************************************************************************)
\* The values a catch block hands over: a store error, an Error with a
\* message and no code, an object with a code the rules do not name, null.
CaughtCodes == {UNDEFINED, "", "PGRST116", "23505", "23503", "42501", "42P01", "22P02"}

CaughtMessages == {UNDEFINED} \cup {e.message : e \in StoreErrors} \cup OtherMessages

CaughtErrors == [code : CaughtCodes, message : CaughtMessages]

SanitizeErrorMessage(s) ==
  /\ CanCall(s)
  /\ \E error \in CaughtErrors :
       LET r == Begin(s, "sanitizeErrorMessage", [uid |-> NULL, ip |-> "ip1"], "p1", <<>>)
       IN req' = Started(s, Finish([r EXCEPT !.caught = error],
                                   createErrorResponse(sanitizeErrorMessage(error))))
  /\ calls' = calls + 1
  /\ UNCHANGED <<polls, poll_options, votes, optionSeq, now>>
  /\ UNCHANGED sessionVars

(***************************************************************************)
(* removeVoteOperation (lib/operations/voting.ts).                         *)
(***************************************************************************)
\* Mutant: the DELETE takes every vote on the poll's option, whoever cast it.
RemoveVoteAnyVoter(s, callers) ==
  /\ CanCall(s)
  /\ \E caller \in callers, pollId \in TargetPolls, optionId \in OptionIds :
       LET r    == Begin(s, "removeVote", caller, pollId, <<optionId>>)
           rows == {v \in votes : v.poll_id = pollId /\ v.option_id = optionId}
           db   == DeleteRows(polls, poll_options, votes, rows)
       IN /\ req' = Started(s, Finish(r, createSuccessResponse))
          /\ polls' = db.polls
          /\ poll_options' = db.poll_options
          /\ votes' = db.votes
  /\ calls' = calls + 1
  /\ UNCHANGED <<now, optionSeq>>
  /\ UNCHANGED sessionVars

RemoveVote(s, callers) ==
  /\ CanCall(s)
  /\ \E caller \in callers, pollId \in TargetPolls, optionId \in OptionIds :
       LET r    == Begin(s, "removeVote", caller, pollId, <<optionId>>)
           user == getCurrentUser(caller)
           rows == {v \in votes :
                      /\ v.poll_id = pollId /\ v.option_id = optionId
                      /\ IF user.isAuthenticated
                           THEN v.voter_id = user.id ELSE v.voter_ip = caller.ip
                      /\ VotesDeletePolicy(v, caller.uid)}
           db   == DeleteRows(polls, poll_options, votes, rows)
       IN IF ~user.isAuthenticated /\ ~IsInet(caller.ip)
            THEN /\ req' = Started(s, Finish(r, createErrorResponse(
                      createDatabaseError("Failed to remove vote: " \o E22P02.message))))
                 /\ UNCHANGED <<polls, poll_options, votes>>
            ELSE /\ req' = Started(s, Finish(r, createSuccessResponse))
                 /\ polls' = db.polls
                 /\ poll_options' = db.poll_options
                 /\ votes' = db.votes
  /\ calls' = calls + 1
  /\ UNCHANGED <<now, optionSeq>>
  /\ UNCHANGED sessionVars

(***************************************************************************)
(* updatePollOptionsOperation, deletePollOperation                         *)
(* (lib/operations/polls.ts).                                              *)
(***************************************************************************)
\* validateUpdatePollOptionsInput, for n distinct non-empty option texts.
validateUpdatePollOptionsInput(n) == n >= 2

\* Mutant: the author of the poll is not compared with the caller.
OwnershipErrorExistsOnly(P, pollId, authorId) ==
  LET poll == SelectPoll(P, pollId, authorId)
  IN IF poll.error # NoError THEN createNotFoundError("poll") ELSE NoError

\* The check that the poll exists and the caller owns it; "" if so.
OwnershipError(P, pollId, authorId) ==
  LET poll == SelectPoll(P, pollId, authorId)
  IN IF poll.error # NoError THEN createNotFoundError("poll")
     ELSE IF poll.data.author_id # authorId
       THEN [code |-> "AUTHORIZATION_ERROR", message |-> "You can only edit your own polls"]
     ELSE NoError

\* The options of a poll, the votes on it and its total_votes.
Snapshot(P, O, V, pollId) ==
  [options |-> {o \in O : o.poll_id = pollId},
   votes |-> {v \in V : v.poll_id = pollId},
   total |-> P[pollId].total_votes]

UpdatePollOptionsCall(s) ==
  /\ CanCall(s)
  /\ \E authorId \in Users, pollId \in TargetPolls, n \in 1..NewOptions :
       LET r   == [Begin(s, "updatePollOptions", [uid |-> authorId, ip |-> "ip1"],
                         pollId, <<>>)
                     EXCEPT !.n = n,
                            !.before = Snapshot(polls, poll_options, votes, pollId)]
           err == OwnershipError(polls, pollId, authorId)
       IN req' = Started(s,
            IF ~validateUpdatePollOptionsInput(n)
              THEN Finish(r, createErrorResponse(
                     [code |-> "VALIDATION_ERROR", message |-> "Invalid poll options input"]))
            ELSE IF err # NoError THEN Finish(r, createErrorResponse(err))
            ELSE [r EXCEPT !.pc = "delete"])
  /\ calls' = calls + 1
  /\ UNCHANGED <<polls, poll_options, votes, now, optionSeq>>
  /\ UNCHANGED sessionVars

UpdatePollOptionsDelete(s) ==
  /\ req[s].pc = "delete" /\ req[s].op = "updatePollOptions"
  /\ LET r  == req[s]
         db == DeletePollOptions(polls, poll_options, votes, r.pollId, r.uid)
     IN /\ polls' = db.polls
        /\ poll_options' = db.poll_options
        /\ votes' = db.votes
        /\ req' = [req EXCEPT ![s].pc = "insert"]
  /\ UNCHANGED <<now, calls, optionSeq>>
  /\ UNCHANGED sessionVars

\* INSERT INTO poll_options of the new rows, under the policy
\* "Poll authors can manage options" and the foreign key to polls.
UpdatePollOptionsInsert(s) ==
  /\ req[s].pc = "insert" /\ req[s].op = "updatePollOptions"
  /\ LET r == req[s]
     IN IF PollOptionsManagePolicy(polls, r.pollId, r.uid)
          THEN /\ poll_options' = poll_options \cup
                    {[id |-> optionSeq + i, poll_id |-> r.pollId, votes |-> 0,
                      text |-> "new"] : i \in 1..r.n}
               /\ optionSeq' = optionSeq + r.n
               /\ req' = [req EXCEPT ![s] = Finish(r, createSuccessResponse)]
          ELSE /\ req' = [req EXCEPT ![s] = Finish(r, createErrorResponse(
                    createDatabaseError("Failed to create new poll options: " \o E42501.message)))]
               /\ UNCHANGED <<poll_options, optionSeq>>
  /\ UNCHANGED <<polls, votes, now, calls>>
  /\ UNCHANGED sessionVars

\* The same step when the INSERT comes back with an error.
UpdatePollOptionsInsertFailed(s) ==
  /\ req[s].pc = "insert" /\ req[s].op = "updatePollOptions"
  /\ req' = [req EXCEPT ![s] = Finish([req[s] EXCEPT !.storeError = E57014.code],
               createErrorResponse(createDatabaseError(
                 "Failed to create new poll options: " \o E57014.message)))]
  /\ UNCHANGED <<polls, poll_options, votes, optionSeq, now, calls>>
  /\ UNCHANGED sessionVars

DeletePollCall(s) ==
  /\ CanCall(s)
  /\ \E authorId \in Users, pollId \in TargetPolls :
       LET r   == Begin(s, "deletePoll", [uid |-> authorId, ip |-> "ip1"], pollId, <<>>)
           err == OwnershipError(polls, pollId, authorId)
       IN req' = Started(s,
            IF err # NoError
              THEN Finish(r, createErrorResponse(
                     IF err.code = "AUTHORIZATION_ERROR"
                       THEN [err EXCEPT !.message = "You can only delete your own polls"]
                       ELSE err))
            ELSE [r EXCEPT !.pc = "delete"])
  /\ calls' = calls + 1
  /\ UNCHANGED <<polls, poll_options, votes, now, optionSeq>>
  /\ UNCHANGED sessionVars

DeletePollDelete(s) ==
  /\ req[s].pc = "delete" /\ req[s].op = "deletePoll"
  /\ LET r  == req[s]
         db == DeletePoll(polls, poll_options, votes, r.pollId, r.uid)
     IN /\ polls' = db.polls
        /\ poll_options' = db.poll_options
        /\ votes' = db.votes
        /\ req' = [req EXCEPT ![s] = Finish(r, createSuccessResponse)]
  /\ UNCHANGED <<now, calls, optionSeq>>
  /\ UNCHANGED sessionVars

(***************************************************************************)
(* updatePollOperation (lib/operations/polls.ts), updatePollClient         *)
(* (lib/api/polls-client.ts), updatePoll (lib/api/polls.ts).               *)
(***************************************************************************)
\* The inputs of an update: the status key absent or one of the enum's values.
PollUpdates == [status : {UNDEFINED, "active", "ended", "draft"}]

\* sanitizePollUpdateInput copies each key that is not undefined.
sanitizePollUpdateInput(input) ==
  [status |-> IF input.status # UNDEFINED THEN input.status ELSE UNDEFINED]

UpdateOps == {"updatePollOperation", "updatePollClient", "updatePoll"}

\* Policy "Users can update their own polls".
PollsUpdatePolicy(P, pollId, uid) == P[pollId].exists /\ P[pollId].author_id = uid

\* .from('polls').update(input).eq('id', p).select().single()
UpdatePoll(P, pollId, uid, input) ==
  IF ~PollsUpdatePolicy(P, pollId, uid)
    THEN [error |-> PGRST116, polls |-> P]
    ELSE [error |-> NoError,
          polls |-> IF input.status = UNDEFINED THEN P
                    ELSE [P EXCEPT ![pollId].status = input.status]]

\* The error response of one of the three functions; updatePoll throws and
\* returns the Error.
UpdateDenied(op, code, message, apiMessage) ==
  IF op = "updatePoll" THEN Thrown(apiMessage)
  ELSE createErrorResponse([code |-> code, message |-> message])

\* Up to the check of the ownership.  updatePollOperation is given the id of
\* the author; the other two take the user of the browser's session.
UpdatePollCall(s) ==
  /\ CanCall(s)
  /\ \E op \in UpdateOps, uid \in Users \cup {NULL}, pollId \in TargetPolls,
        input \in PollUpdates :
       /\ op = "updatePollOperation" => uid # NULL
       /\ LET r == [Begin(s, op, [uid |-> uid, ip |-> "ip1"], pollId, <<>>)
                      EXCEPT !.input = IF op = "updatePollOperation"
                                         THEN sanitizePollUpdateInput(input) ELSE input]
              poll == SelectPoll(polls, pollId, uid)
          IN req' = Started(s,
               IF uid = NULL
                 THEN Finish(r, UpdateDenied(op, "AUTHENTICATION_ERROR",
                        "User not authenticated", "User not authenticated"))
               ELSE IF poll.error # NoError
                 THEN Finish(r,
                        IF op = "updatePollOperation"
                          THEN createErrorResponse(createNotFoundError("poll"))
                          ELSE UpdateDenied(op, "NOT_FOUND", "Poll not found",
                                            "Poll not found: " \o poll.error.message))
               ELSE IF poll.data.author_id # uid
                 THEN Finish(r,
                        IF op = "updatePollOperation"
                          THEN createErrorResponse([code |-> "AUTHORIZATION_ERROR",
                                 message |-> "You can only edit your own polls"])
                          ELSE UpdateDenied(op, "AUTHORIZATION_ERROR", "Access denied",
                                            "You can only update your own polls"))
               ELSE [r EXCEPT !.pc = "update"])
  /\ calls' = calls + 1
  /\ UNCHANGED <<polls, poll_options, votes, now, optionSeq>>
  /\ UNCHANGED sessionVars

\* The UPDATE of the polls row and the response.
UpdatePollUpdate(s) ==
  /\ req[s].pc = "update" /\ req[s].op \in UpdateOps
  /\ LET r   == req[s]
         res == UpdatePoll(polls, r.pollId, r.uid, r.input)
     IN /\ polls' = res.polls
        /\ req' = [req EXCEPT ![s] =
             IF res.error = NoError THEN Finish(r, createSuccessResponse)
             ELSE IF r.op = "updatePollOperation"
               THEN Finish(r, createErrorResponse(createDatabaseError(
                      "Failed to update poll: " \o res.error.message)))
             ELSE Finish(r, UpdateDenied(r.op, "DATABASE_ERROR", "Failed to update poll",
                                         "Failed to update poll: " \o res.error.message))]
  /\ UNCHANGED <<poll_options, votes, now, calls, optionSeq>>
  /\ UNCHANGED sessionVars

(***************************************************************************)
(* deletePoll, updatePollOptions (lib/api/polls.ts).                       *)
(***************************************************************************)
ApiOps == {"apiDeletePoll", "apiUpdatePollOptions"}

\* .from('poll_options').update({ text }).eq('id', id).eq('poll_id', p),
\* under the policy "Poll authors can manage options".
UpdateOptionText(P, O, pollId, optionId, uid) ==
  {IF o.id = optionId /\ o.poll_id = pollId /\ PollOptionsManagePolicy(P, pollId, uid)
     THEN [o EXCEPT !.text = "new"] ELSE o : o \in O}

\* Up to the check of the ownership, for the user of the browser's session.
ApiManageCall(s) ==
  /\ CanCall(s)
  /\ \E op \in ApiOps, uid \in Users \cup {NULL}, pollId \in TargetPolls,
        optionIds \in SelectionsOver(OptionIds) :
       /\ op = "apiDeletePoll" => optionIds = <<>>
       /\ LET r == Begin(s, op, [uid |-> uid, ip |-> "ip1"], pollId, optionIds)
              poll == SelectPoll(polls, pollId, uid)
          IN req' = Started(s,
               IF uid = NULL THEN Finish(r, Thrown("User not authenticated"))
               ELSE IF poll.error # NoError
                 THEN Finish(r, Thrown("Poll not found: " \o poll.error.message))
               ELSE IF poll.data.author_id # uid
                 THEN Finish(r, Thrown(IF op = "apiDeletePoll"
                                         THEN "You can only delete your own polls"
                                         ELSE "You can only update your own polls"))
               ELSE [r EXCEPT !.pc = "manage"])
  /\ calls' = calls + 1
  /\ UNCHANGED <<polls, poll_options, votes, now, optionSeq>>
  /\ UNCHANGED sessionVars

\* deletePoll: the DELETE of the polls row.
ApiDeletePollDelete(s) ==
  /\ req[s].pc = "manage" /\ req[s].op = "apiDeletePoll"
  /\ LET r  == req[s]
         db == DeletePoll(polls, poll_options, votes, r.pollId, r.uid)
     IN /\ polls' = db.polls
        /\ poll_options' = db.poll_options
        /\ votes' = db.votes
        /\ req' = [req EXCEPT ![s] = Finish(r, [success |-> TRUE, code |-> "", message |-> ""])]
  /\ UNCHANGED <<now, calls, optionSeq>>
  /\ UNCHANGED sessionVars

\* updatePollOptions: one turn of the loop over the options, or the return
\* after the last.
ApiUpdatePollOptionsUpdate(s) ==
  /\ req[s].pc = "manage" /\ req[s].op = "apiUpdatePollOptions"
  /\ LET r == req[s]
     IN IF r.n < Len(r.optionIds)
          THEN /\ poll_options' = UpdateOptionText(polls, poll_options, r.pollId,
                                                    r.optionIds[r.n + 1], r.uid)
               /\ req' = [req EXCEPT ![s].n = r.n + 1]
          ELSE /\ req' = [req EXCEPT ![s] =
                            Finish(r, [success |-> TRUE, code |-> "", message |-> ""])]
               /\ UNCHANGED poll_options
  /\ UNCHANGED <<polls, votes, now, calls, optionSeq>>
  /\ UNCHANGED sessionVars

(***************************************************************************)
(* getCurrentUser (lib/auth/utils.ts), with the profiles table.            *)
(***************************************************************************)
\* supabase.auth.getUser() and the query of the user's profiles row; authUser
\* is the user of a valid session, NULL without one.
GetCurrentUserCall(s) ==
  /\ CanCall(s)
  /\ \E authUser \in Users \cup {NULL} :
       LET r == Begin(s, "getCurrentUser", [uid |-> authUser, ip |-> "ip1"], "p1", <<>>)
       IN req' = Started(s,
            IF authUser = NULL
              THEN Finish([r EXCEPT !.user = createAnonymousUser], createSuccessResponse)
            ELSE IF authUser \in profiles
              THEN Finish([r EXCEPT !.user = createAuthenticatedUser(authUser)],
                          createSuccessResponse)
            ELSE [r EXCEPT !.pc = "create"])
  /\ calls' = calls + 1
  /\ UNCHANGED <<polls, poll_options, votes, optionSeq, now, profiles, store, limitLog>>

\* The insert of the missing profiles row (id is the primary key) and the
\* AppUser returned.
GetCurrentUserCreate(s) ==
  /\ req[s].pc = "create" /\ req[s].op = "getCurrentUser"
  /\ LET r == req[s]
     IN IF r.uid \in profiles
          THEN /\ req' = [req EXCEPT ![s] =
                    Finish([r EXCEPT !.user = createAnonymousUser, !.storeError = E23505.code],
                           createSuccessResponse)]
               /\ UNCHANGED profiles
          ELSE /\ req' = [req EXCEPT ![s] =
                    Finish([r EXCEPT !.user = createAuthenticatedUser(r.uid)],
                           createSuccessResponse)]
               /\ profiles' = profiles \cup {r.uid}
  /\ UNCHANGED <<polls, poll_options, votes, optionSeq, now, calls, store, limitLog>>

(***************************************************************************)
(* Rate limiter (lib/security/rate-limiter.ts).                            *)
(***************************************************************************)
\* Date.now()
DateNow == now * MsPerTick

WindowMs == WindowTicks * MsPerTick

\* Math.ceil(x / d) for an integer x and d > 0.
Ceil(x, d) == -((-x) \div d)

\* x-forwarded-for's first element, else x-real-ip, else 'unknown'.
getClientIdentifier(ip) == ip

\* `${identifier}:${type}:${endpoint}` for the vote endpoint.
LimitKey(identifier) == identifier \o ":polls:vote"

\* `${identifier}:polls:${endpoint}`
EndpointKey(identifier, endpoint) == identifier \o ":polls:" \o endpoint

Endpoints == {"create", "vote", "delete"}

LimitKeys == {EndpointKey(getClientIdentifier(ip), e) : ip \in Ips, e \in Endpoints}

\* A key the Map does not hold.
NoEntry == [present |-> FALSE, count |-> 0, resetTime |-> 0]

\* Mutant: the request that reaches the limit is let through as well.
limitOffByOne(S, key, max, windowMs, time) ==
  IF ~S[key].present \/ S[key].resetTime < time
    THEN [store |-> [S EXCEPT ![key] =
                       [present |-> TRUE, count |-> 1, resetTime |-> time + windowMs]],
          success |-> TRUE, remaining |-> max - 1, resetTime |-> time + windowMs]
  ELSE IF S[key].count > max
    THEN [store |-> S, success |-> FALSE, remaining |-> 0, resetTime |-> S[key].resetTime]
  ELSE [store |-> [S EXCEPT ![key].count = @ + 1],
        success |-> TRUE, remaining |-> max - (S[key].count + 1),
        resetTime |-> S[key].resetTime]

\* A limiter whose window ends at its resetTime, not after it.
limitUntilReset(S, key, max, windowMs, time) ==
  IF ~S[key].present \/ S[key].resetTime <= time
    THEN [store |-> [S EXCEPT ![key] =
                       [present |-> TRUE, count |-> 1, resetTime |-> time + windowMs]],
          success |-> TRUE, remaining |-> max - 1, resetTime |-> time + windowMs]
  ELSE IF S[key].count >= max
    THEN [store |-> S, success |-> FALSE, remaining |-> 0, resetTime |-> S[key].resetTime]
  ELSE [store |-> [S EXCEPT ![key].count = @ + 1],
        success |-> TRUE, remaining |-> max - (S[key].count + 1),
        resetTime |-> S[key].resetTime]

\* InMemoryRateLimiter.limit: the Map afterwards and the result.  The method
\* has no await: a call is one step.
limit(S, key, max, windowMs, time) ==
  IF ~S[key].present \/ S[key].resetTime < time
    THEN [store |-> [S EXCEPT ![key] =
                       [present |-> TRUE, count |-> 1, resetTime |-> time + windowMs]],
          success |-> TRUE, remaining |-> max - 1, resetTime |-> time + windowMs]
  ELSE IF S[key].count >= max
    THEN [store |-> S, success |-> FALSE, remaining |-> 0, resetTime |-> S[key].resetTime]
  ELSE [store |-> [S EXCEPT ![key].count = @ + 1],
        success |-> TRUE, remaining |-> max - (S[key].count + 1),
        resetTime |-> S[key].resetTime]

\* A cleanup that also deletes the entries whose window ends now.
CleanupUntilReset ==
  /\ \E k \in LimitKeys : store[k].present /\ store[k].resetTime <= DateNow
  /\ store' = [k \in LimitKeys |->
                 IF store[k].present /\ store[k].resetTime <= DateNow
                   THEN NoEntry ELSE store[k]]
  /\ UNCHANGED <<polls, poll_options, votes, optionSeq, now, req, calls, profiles, limitLog>>

\* InMemoryRateLimiter.cleanup, run by the interval timer.
Cleanup ==
  /\ \E k \in LimitKeys : store[k].present /\ store[k].resetTime < DateNow
  /\ store' = [k \in LimitKeys |->
                 IF store[k].present /\ store[k].resetTime < DateNow
                   THEN NoEntry ELSE store[k]]
  /\ UNCHANGED <<polls, poll_options, votes, optionSeq, now, req, calls, profiles, limitLog>>

\* The body and the Retry-After header of the 429 response.
createRateLimitResponse(remaining, resetTime, time) ==
  [status |-> 429, retryAfter |-> Ceil(resetTime - time, 1000)]

CanLimit(s) ==
  /\ ~InFlight(req[s])
  /\ calls < MaxLimitCalls

\* The record of a call of limit that returned res.
Logged(key, res) ==
  [call |-> calls + 1, key |-> key, time |-> DateNow, success |-> res.success,
   remaining |-> res.remaining, resetTime |-> res.resetTime]

\* rateLimitMiddleware; `failed`: applyRateLimit throws.
RateLimitMiddleware(s) ==
  /\ CanLimit(s)
  /\ \E ip \in Ips, failed \in BOOLEAN :
       LET key == LimitKey(getClientIdentifier(ip))
           res == limit(store, key, RateLimit, WindowMs, DateNow)
           r   == Begin(s, "rateLimitMiddleware", [uid |-> NULL, ip |-> ip], "p1", <<>>)
           out == [NoLimit EXCEPT !.key = key]
       IN IF failed
            THEN /\ req' = Started(s, Finish(
                      [r EXCEPT !.guard = [out EXCEPT !.failed = TRUE, !.through = TRUE]],
                      createSuccessResponse))
                 /\ UNCHANGED <<store, limitLog>>
            ELSE /\ store' = res.store
                 /\ limitLog' = limitLog \cup {Logged(key, res)}
                 /\ req' = Started(s, Finish(
                      [r EXCEPT !.guard =
                         IF res.success
                           THEN [out EXCEPT !.remaining = res.remaining,
                                            !.resetTime = res.resetTime, !.through = TRUE]
                           ELSE [out EXCEPT !.success = FALSE,
                                            !.remaining = res.remaining,
                                            !.resetTime = res.resetTime,
                                            !.hasRetryAfter = TRUE,
                                            !.retryAfter = createRateLimitResponse(
                                              res.remaining, res.resetTime, DateNow).retryAfter]],
                      createSuccessResponse))
  /\ calls' = calls + 1
  /\ UNCHANGED <<polls, poll_options, votes, optionSeq, now, profiles>>

\* The function made by withRateLimit, up to the call of the wrapped
\* function; `failed`: applyRateLimit throws.
WithRateLimit(s) ==
  /\ CanLimit(s)
  /\ \E ip \in Ips, failed \in BOOLEAN :
       LET key == LimitKey(getClientIdentifier(ip))
           res == limit(store, key, RateLimit, WindowMs, DateNow)
           r   == Begin(s, "withRateLimit", [uid |-> NULL, ip |-> ip], "p1", <<>>)
           out == [NoLimit EXCEPT !.key = key]
       IN IF failed
            THEN /\ req' = Started(s, Finish(
                      [r EXCEPT !.guard = [out EXCEPT !.failed = TRUE]],
                      Thrown("Internal error")))
                 /\ UNCHANGED <<store, limitLog>>
            ELSE /\ store' = res.store
                 /\ limitLog' = limitLog \cup {Logged(key, res)}
                 /\ req' = Started(s,
                      IF res.success
                        THEN Finish([r EXCEPT !.guard =
                                       [out EXCEPT !.remaining = res.remaining,
                                                   !.resetTime = res.resetTime,
                                                   !.through = TRUE]],
                                    createSuccessResponse)
                        ELSE Finish([r EXCEPT !.guard =
                                       [out EXCEPT !.success = FALSE,
                                                   !.remaining = res.remaining,
                                                   !.resetTime = res.resetTime]],
                                    Thrown("Rate limit exceeded. Please try again later.")))
  /\ calls' = calls + 1
  /\ UNCHANGED <<polls, poll_options, votes, optionSeq, now, profiles>>

\* The limiter's clock.
Advance ==
  /\ now < MaxClock
  /\ now' = now + 1
  /\ UNCHANGED <<polls, poll_options, votes, optionSeq, req, calls, profiles, store, limitLog>>

(***************************************************************************)
(* Forgery token (lib/security/csrf.ts).                                   *)
(***************************************************************************)
\* A string is the sequence of its characters.
Str(chars) == [present |-> TRUE, chars |-> chars]

\* !!v for a string | null: neither null nor the empty string.
Truthy(v) == v.present /\ v.chars # <<>>

RECURSIVE split(_, _)
\* String.prototype.split for a separator of one character.
split(chars, sep) ==
  IF \A i \in 1..Len(chars) : chars[i] # sep
    THEN <<chars>>
    ELSE LET i == CHOOSE k \in 1..Len(chars) :
                    chars[k] = sep /\ \A j \in 1..(k - 1) : chars[j] # sep
         IN <<SubSeq(chars, 1, i - 1)>> \o split(SubSeq(chars, i + 1, Len(chars)), sep)

RECURSIVE trim(_)
\* String.prototype.trim
trim(chars) ==
  IF chars = <<>> THEN chars
  ELSE IF Head(chars) = " " THEN trim(Tail(chars))
  ELSE IF chars[Len(chars)] = " " THEN trim(SubSeq(chars, 1, Len(chars) - 1))
  ELSE chars

\* CSRFProtection.TOKEN_COOKIE, the name 'csrf-token' (one character here).
TOKEN_COOKIE == <<"c">>

\* CSRFProtection.getTokenFromRequest: the x-csrf-token header, null when
\* headers() throws.
getTokenFromRequest(h) == IF h.headerFail THEN Absent ELSE h.header

\* CSRFProtection.getTokenFromCookies: the cookie header is cut at ';', each
\* piece trimmed and cut at '=', the first two parts kept as name and value;
\* a later cookie of the same name replaces an earlier one.
getTokenFromCookies(h) ==
  IF h.cookieFail \/ ~Truthy(h.cookie) THEN Absent
  ELSE LET pieces == split(h.cookie.chars, ";")
           parts  == [i \in 1..Len(pieces) |-> split(trim(pieces[i]), "=")]
           named  == {i \in 1..Len(pieces) : parts[i][1] = TOKEN_COOKIE}
       IN IF named = {} THEN Absent
          ELSE LET last  == CHOOSE i \in named : \A j \in named : j <= i
                   value == IF Len(parts[last]) >= 2 THEN Str(parts[last][2]) ELSE Absent
               IN IF Truthy(value) THEN value ELSE Absent

\* String.prototype.charCodeAt for the characters in use.
charCodeAt(ch) ==
  CASE ch = "a" -> 97 [] ch = "b" -> 98 [] ch = "c" -> 99 [] ch = "o" -> 111
    [] ch = "=" -> 61 [] ch = ";" -> 59 [] ch = " " -> 32

\* x ^ y and x | y for non-negative integers.
RECURSIVE BitXor(_, _)
BitXor(x, y) ==
  IF x = 0 /\ y = 0 THEN 0
  ELSE ((x + y) % 2) + 2 * BitXor(x \div 2, y \div 2)

RECURSIVE BitOr(_, _)
BitOr(x, y) ==
  IF x = 0 /\ y = 0 THEN 0
  ELSE (IF x % 2 = 1 \/ y % 2 = 1 THEN 1 ELSE 0) + 2 * BitOr(x \div 2, y \div 2)

\* `result` after the first i rounds of the loop of constantTimeCompare.
RECURSIVE CompareLoop(_, _, _)
CompareLoop(a, b, i) ==
  IF i = 0 THEN 0
  ELSE BitOr(CompareLoop(a, b, i - 1), BitXor(charCodeAt(a[i]), charCodeAt(b[i])))

\* The loop with result ^= in place of result |=.
RECURSIVE XorLoop(_, _, _)
XorLoop(a, b, i) ==
  IF i = 0 THEN 0
  ELSE BitXor(XorLoop(a, b, i - 1), BitXor(charCodeAt(a[i]), charCodeAt(b[i])))

constantTimeCompareXorOnly(a, b) ==
  IF Len(a) # Len(b) THEN FALSE
  ELSE XorLoop(a, b, Len(a)) = 0

\* CSRFProtection.constantTimeCompare: equal lengths, and result, the | of
\* the ^ of the character codes at each position, is 0.
constantTimeCompare(a, b) ==
  IF Len(a) # Len(b) THEN FALSE
  ELSE CompareLoop(a, b, Len(a)) = 0

\* Mutant: the comparison stops at the shorter string.
validateTokenByPrefix(providedToken, h) ==
  LET cookieToken == getTokenFromCookies(h)
  IN IF ~Truthy(cookieToken) \/ ~Truthy(providedToken) THEN FALSE
     ELSE \A i \in 1..Len(providedToken.chars) :
            i > Len(cookieToken.chars) \/ providedToken.chars[i] = cookieToken.chars[i]

\* CSRFProtection.validateToken
validateToken(providedToken, h) ==
  LET cookieToken == getTokenFromCookies(h)
  IN IF ~Truthy(cookieToken) \/ ~Truthy(providedToken) THEN FALSE
     ELSE constantTimeCompare(providedToken.chars, cookieToken.chars)

createAuthenticationError(message) ==
  [code |-> "AUTHENTICATION_ERROR", message |-> message]

\* validateCSRF: the error it throws, Passed if none.  Its helpers catch
\* their own errors, so the catch-all of validateCSRF has nothing to catch.
validateCSRF(h) ==
  LET providedToken == getTokenFromRequest(h)
  IN IF ~Truthy(providedToken) THEN createAuthenticationError("CSRF token missing")
     ELSE IF ~validateToken(providedToken, h)
       THEN createAuthenticationError("Invalid CSRF token")
     ELSE Passed

\* The headers of a request as the forgery token stage reads them:
\* x-csrf-token, cookie, and whether headers() throws at each read.
HeaderTokens ==
  {Absent, Str(<<>>), Str(<<"a">>), Str(<<"b">>), Str(<<"a", "=", "b">>)}

\* 'c=a', 'c=b', 'c=a=b', 'c=', 'c', 'o=a'
CookiePieces ==
  {<<"c", "=", "a">>, <<"c", "=", "b">>, <<"c", "=", "a", "=", "b">>,
   <<"c", "=">>, <<"c">>, <<"o", "=", "a">>}

CookieHeaders ==
  {Absent, Str(<<>>)}
    \cup {Str(p) : p \in CookiePieces}
    \cup {Str(p \o <<";", " ">> \o q) : p \in CookiePieces, q \in CookiePieces}

RequestHeaders ==
  [headerFail : BOOLEAN, header : HeaderTokens,
   cookieFail : BOOLEAN, cookie : CookieHeaders]

\* The strings handed to constantTimeCompare: of length 0 to MaxTokenLen.
ComparedStrings == UNION {[1..n -> {"a", "b", "c"}] : n \in 0..MaxTokenLen}

\* A call of constantTimeCompare.
ConstantTimeCompare(s) ==
  /\ CanCall(s)
  /\ \E a \in ComparedStrings, b \in ComparedStrings :
       LET r == Begin(s, "constantTimeCompare", [uid |-> NULL, ip |-> "ip1"], "p1", <<>>)
       IN req' = Started(s, Finish(
            [r EXCEPT !.compared = [a |-> a, b |-> b, equal |-> constantTimeCompare(a, b)]],
            createSuccessResponse))
  /\ calls' = calls + 1
  /\ UNCHANGED <<polls, poll_options, votes, optionSeq, now, profiles, store, limitLog>>

(***************************************************************************)
(* Session (lib/security/session.ts, validateCSRFWithSession).             *)
(***************************************************************************)
Hour == 60 * 60 * 1000

\* SessionManager.MAX_SESSION_AGE
MAX_SESSION_AGE == 24 * 60 * 60 * 1000

\* SessionManager.MAX_IDLE_TIME
MAX_IDLE_TIME == 2 * 60 * 60 * 1000

\* Date.now() as the session checks read it: the limiter's clock, started
\* late enough for a session to be older than a day.
SessionNow == 30 * Hour + DateNow

\* The sessions the auth provider may hold at `time`.  expires_at and
\* created_at are the fields the code reads, either may be missing;
\* established and lastActivity are when the user logged in and when the
\* session was last used.  A session expires after it is established and is
\* created when it is established.
Sessions(time) ==
  {s \in [present : {TRUE},
          expires_at : {NoStamp, time + Hour, time - Hour, time - 25 * Hour},
          created_at : {NoStamp, time - Hour, time - 3 * Hour, time - 25 * Hour,
                        time - 50 * Hour},
          established : {time - Hour, time - 3 * Hour, time - 25 * Hour,
                         time - 50 * Hour},
          lastActivity : {time, time - Hour, time - 3 * Hour, time - 25 * Hour}] :
     /\ s.lastActivity >= s.established
     /\ s.expires_at = NoStamp \/ s.expires_at > s.established
     /\ s.created_at \in {NoStamp, s.established}}

\* What the auth provider answers to one check: createServerSupabaseClient,
\* getUser or getSession throws (throws); getUser returns an error
\* (userError) or a user (user); getSession returns an error (sessionError)
\* or a session.
AuthAnswers(time) ==
  [throws : BOOLEAN, userError : BOOLEAN, user : BOOLEAN, sessionError : BOOLEAN,
   session : Sessions(time) \cup {NoSession}]

\* Mutant: the session's expiry is not looked at.
validateSessionAnyAge(a, time) ==
  IF a.throws THEN createAuthenticationError("Session validation failed")
  ELSE IF a.userError \/ a.sessionError
    THEN createAuthenticationError("Session validation failed")
  ELSE IF ~a.user \/ ~a.session.present
    THEN createAuthenticationError("No active session")
  ELSE Passed

\* Mutant: an error of the auth provider is ignored when it also returns a
\* user and a session.
validateSessionLenient(a, time) ==
  IF a.throws THEN createAuthenticationError("Session validation failed")
  ELSE IF ~a.user \/ ~a.session.present
    THEN createAuthenticationError("No active session")
  ELSE IF time - a.session.expires_at > MAX_SESSION_AGE
    THEN createAuthenticationError("Session expired")
  ELSE Passed

\* SessionManager.validateSession: the error it throws, Passed if none.
validateSession(a, time) ==
  IF a.throws THEN createAuthenticationError("Session validation failed")
  ELSE IF a.userError \/ a.sessionError
    THEN createAuthenticationError("Session validation failed")
  ELSE IF ~a.user \/ ~a.session.present
    THEN createAuthenticationError("No active session")
  ELSE IF time - a.session.expires_at > MAX_SESSION_AGE
    THEN createAuthenticationError("Session expired")
  ELSE Passed

\* SessionManager.validateSessionWithActivity
validateSessionWithActivity(a, time) ==
  LET v == validateSession(a, time)
  IN IF v # Passed THEN v
     ELSE IF ~(time - a.session.created_at < MAX_IDLE_TIME)
       THEN createAuthenticationError("Session inactive")
     ELSE Passed

\* SessionManager.validateSessionForOperation
validateSessionForOperation(a, time, requireRecentActivity) ==
  IF requireRecentActivity
    THEN validateSessionWithActivity(a, time)
    ELSE validateSession(a, time)

validateSessionForSensitiveOperation(a, time) ==
  validateSessionForOperation(a, time, TRUE)

\* validateCSRFWithSession, after validateCSRF has passed.
validateCSRFSession(a, time) ==
  IF a.throws THEN createAuthenticationError("Authentication validation failed")
  ELSE IF a.userError \/ ~a.user THEN createAuthenticationError("Invalid session")
  ELSE IF a.sessionError \/ ~a.session.present
    THEN createAuthenticationError("Session expired")
  ELSE IF time - a.session.expires_at > MAX_SESSION_AGE
    THEN createAuthenticationError("Session too old")
  ELSE Passed

CanGuard(s) ==
  /\ ~InFlight(req[s])
  /\ calls < MaxGuardCalls

\* The function made by withCSRFProtection, up to the call of the wrapped
\* function.
WithCSRFProtection(s) ==
  /\ CanGuard(s)
  /\ \E requireSession \in BOOLEAN, h \in RequestHeaders :
       LET csrf == validateCSRF(h)
           r == Begin(s, "withCSRFProtection", [uid |-> NULL, ip |-> "ip1"], "p1", <<>>)
           g == [NoGate EXCEPT !.entry = "withCSRFProtection",
                               !.requireSession = requireSession,
                               !.headers = h, !.time = SessionNow]
       IN IF csrf # Passed \/ ~requireSession
            THEN req' = Started(s, Finish(
                   [r EXCEPT !.gate = [g EXCEPT !.stages = <<"csrf">>, !.error = csrf,
                                                !.ran = (csrf = Passed)]],
                   IF csrf = Passed THEN createSuccessResponse ELSE createErrorResponse(csrf)))
            ELSE \E a \in AuthAnswers(SessionNow) :
                   LET e == validateCSRFSession(a, SessionNow)
                   IN req' = Started(s, Finish(
                        [r EXCEPT !.gate = [g EXCEPT !.stages = <<"csrf", "session">>,
                                                     !.answer = a, !.error = e,
                                                     !.ran = (e = Passed)]],
                        IF e = Passed THEN createSuccessResponse ELSE createErrorResponse(e)))
  /\ calls' = calls + 1
  /\ UNCHANGED <<polls, poll_options, votes, optionSeq, now, profiles, store, limitLog>>

\* The function made by withSessionValidation, up to the call of the
\* wrapped function.
WithSessionValidation(s) ==
  /\ CanGuard(s)
  /\ \E requireRecentActivity \in BOOLEAN, a \in AuthAnswers(SessionNow) :
       LET e == validateSessionForOperation(a, SessionNow, requireRecentActivity)
           r == Begin(s, "withSessionValidation", [uid |-> NULL, ip |-> "ip1"], "p1", <<>>)
           g == [NoGate EXCEPT !.entry = "withSessionValidation",
                               !.requireSession = requireRecentActivity,
                               !.answer = a, !.time = SessionNow,
                               !.stages = <<"session">>, !.error = e,
                               !.ran = (e = Passed)]
       IN req' = Started(s, Finish([r EXCEPT !.gate = g],
                   IF e = Passed THEN createSuccessResponse ELSE createErrorResponse(e)))
  /\ calls' = calls + 1
  /\ UNCHANGED <<polls, poll_options, votes, optionSeq, now, profiles, store, limitLog>>

(***************************************************************************)
(* createPollServer, deletePollServer, voteOnPollServer                    *)
(* (lib/supabase/factory.ts): withCSRFProtection(withRateLimit(fn)).       *)
(***************************************************************************)
\* The secured entry points: the endpoint of their rate limit and the
\* requireSession argument of withCSRFProtection.
SecuredEntries ==
  {[name |-> "createPollServer", endpoint |-> "create", requireSession |-> TRUE],
   [name |-> "deletePollServer", endpoint |-> "delete", requireSession |-> TRUE],
   [name |-> "voteOnPollServer", endpoint |-> "vote", requireSession |-> FALSE]}

\* The requests made to the secured entry points: no token, the cookie's
\* token, another token, no cookie.
GatewayHeaders ==
  [headerFail : {FALSE}, header : {Absent, Str(<<"a">>), Str(<<"b">>)},
   cookieFail : {FALSE}, cookie : {Absent, Str(<<"c", "=", "a">>)}]

\* The auth provider's answers to them: no user, no session, a session an
\* hour old, one three hours old, one whose expiry is over a day ago.
GatewaySession(expires_at, established) ==
  [present |-> TRUE, expires_at |-> expires_at, created_at |-> established,
   established |-> established, lastActivity |-> established]

GatewayAnswers(time) ==
  [throws : {FALSE}, userError : {FALSE}, user : BOOLEAN, sessionError : {FALSE},
   session : {NoSession,
              GatewaySession(time + Hour, time - Hour),
              GatewaySession(time + Hour, time - 3 * Hour),
              GatewaySession(time - 25 * Hour, time - 50 * Hour)}]

\* new Error(message), which has no code
PlainError(message) == [code |-> "", message |-> message]

\* The key has used up its window.
OverLimit(S, key, max, time) ==
  S[key].present /\ ~(S[key].resetTime < time) /\ S[key].count >= max

CanSecure(s) ==
  /\ ~InFlight(req[s])
  /\ calls < MaxSecuredCalls

\* The call enters the function made by withCSRFProtection: validateCSRF,
\* and validateCSRFWithSession's session check when the entry requires one.
SecuredCall(s) ==
  /\ CanSecure(s)
  /\ \E entry \in SecuredEntries, ip \in Ips, h \in GatewayHeaders :
       LET csrf == validateCSRF(h)
           key == EndpointKey(getClientIdentifier(ip), entry.endpoint)
           r == Begin(s, entry.name, [uid |-> NULL, ip |-> ip], "p1", <<>>)
           g == [NoGate EXCEPT !.entry = entry.endpoint,
                               !.requireSession = entry.requireSession,
                               !.time = SessionNow,
                               !.overLimit = OverLimit(store, key, RateLimit, DateNow)]
       IN IF csrf # Passed
            THEN req' = Started(s, Finish(
                   [r EXCEPT !.gate = [g EXCEPT !.stages = <<"csrf">>, !.error = csrf]],
                   createErrorResponse(csrf)))
          ELSE IF ~entry.requireSession
            THEN req' = Started(s, [r EXCEPT !.pc = "limit",
                                             !.gate = [g EXCEPT !.stages = <<"csrf">>]])
          ELSE \E a \in GatewayAnswers(SessionNow) :
                 LET e == validateCSRFSession(a, SessionNow)
                     g2 == [g EXCEPT !.stages = <<"csrf", "session">>, !.error = e]
                 IN req' = Started(s,
                      IF e = Passed THEN [r EXCEPT !.pc = "limit", !.gate = g2]
                      ELSE Finish([r EXCEPT !.gate = g2], createErrorResponse(e)))
  /\ calls' = calls + 1
  /\ UNCHANGED <<polls, poll_options, votes, optionSeq, now, profiles, store, limitLog>>

\* A wrapper that goes on to the wrapped function after a refusal.
SecuredLimitThenRun(s) ==
  /\ req[s].pc = "limit"
  /\ \E failed \in BOOLEAN :
       LET r == req[s]
           key == EndpointKey(getClientIdentifier(r.ip), r.gate.entry)
           res == limit(store, key, RateLimit, WindowMs, DateNow)
           g == [r.gate EXCEPT !.stages = Append(@, "rateLimit")]
       IN IF failed
            THEN /\ req' = [req EXCEPT ![s] = Finish(
                      [r EXCEPT !.gate = [g EXCEPT !.error = PlainError("Internal error")],
                                !.guard = [NoLimit EXCEPT !.key = key, !.failed = TRUE]],
                      Thrown("Internal error"))]
                 /\ UNCHANGED <<store, limitLog>>
            ELSE /\ store' = res.store
                 /\ limitLog' = limitLog \cup {Logged(key, res)}
                 /\ req' = [req EXCEPT ![s] =
                      IF res.success
                        THEN [r EXCEPT !.pc = "body", !.gate = g,
                                       !.guard = [NoLimit EXCEPT !.key = key,
                                                    !.remaining = res.remaining,
                                                    !.resetTime = res.resetTime,
                                                    !.through = TRUE]]
                        ELSE [r EXCEPT !.pc = "body",
                                       !.gate = [g EXCEPT !.error = PlainError(
                                         "Rate limit exceeded. Please try again later.")],
                                       !.guard = [NoLimit EXCEPT !.key = key,
                                                    !.success = FALSE,
                                                    !.remaining = res.remaining,
                                                    !.resetTime = res.resetTime]]]
  /\ UNCHANGED <<polls, poll_options, votes, optionSeq, now, calls, profiles>>

\* The call enters the function made by withRateLimit; `failed`:
\* applyRateLimit throws.
SecuredLimit(s) ==
  /\ req[s].pc = "limit"
  /\ \E failed \in BOOLEAN :
       LET r == req[s]
           key == EndpointKey(getClientIdentifier(r.ip), r.gate.entry)
           res == limit(store, key, RateLimit, WindowMs, DateNow)
           g == [r.gate EXCEPT !.stages = Append(@, "rateLimit")]
       IN IF failed
            THEN /\ req' = [req EXCEPT ![s] = Finish(
                      [r EXCEPT !.gate = [g EXCEPT !.error = PlainError("Internal error")],
                                !.guard = [NoLimit EXCEPT !.key = key, !.failed = TRUE]],
                      Thrown("Internal error"))]
                 /\ UNCHANGED <<store, limitLog>>
            ELSE /\ store' = res.store
                 /\ limitLog' = limitLog \cup {Logged(key, res)}
                 /\ req' = [req EXCEPT ![s] =
                      IF res.success
                        THEN [r EXCEPT !.pc = "body", !.gate = g,
                                       !.guard = [NoLimit EXCEPT !.key = key,
                                                    !.remaining = res.remaining,
                                                    !.resetTime = res.resetTime,
                                                    !.through = TRUE]]
                        ELSE Finish(
                          [r EXCEPT !.gate = [g EXCEPT !.error = PlainError(
                                      "Rate limit exceeded. Please try again later.")],
                                    !.guard = [NoLimit EXCEPT !.key = key,
                                                 !.success = FALSE,
                                                 !.remaining = res.remaining,
                                                 !.resetTime = res.resetTime]],
                          Thrown("Rate limit exceeded. Please try again later."))]
  /\ UNCHANGED <<polls, poll_options, votes, optionSeq, now, calls, profiles>>

\* The option id lists sent to the secured vote entry point.
GatewaySelections == {<<1>>, <<1, 2>>}

\* submitVoteOperation from its first line to its return, with no other call
\* in between: the store afterwards and the response.
submitVoteOperation(P, O, V, r, time) ==
  LET db   == [polls |-> P, poll_options |-> O, votes |-> V]
      user == getCurrentUser(r)
      poll == SelectPoll(P, r.pollId, r.uid)
      eligibility == validateVoteEligibility(PollRow(poll.data), user,
                       getExistingVotes(V, r.pollId, user, r.ip), r.ip, time)
      res  == InsertVotes(P, O, V, SubmitVoteRows(r), r.uid)
  IN IF ~validateVoteInput(r.optionIds)
       THEN [db |-> db, error |-> NoError, result |-> createErrorResponse(
               [code |-> "VALIDATION_ERROR", message |-> "Invalid vote input"])]
     ELSE IF poll.error # NoError
       THEN [db |-> db, error |-> NoError,
             result |-> createErrorResponse(createNotFoundError("poll"))]
     ELSE IF eligibility # ""
       THEN [db |-> db, error |-> NoError, result |-> createErrorResponse(
               [code |-> "VOTE_ELIGIBILITY_ERROR", message |-> eligibility])]
     ELSE IF ~poll.data.allow_multiple_votes /\ Len(r.optionIds) > 1
       THEN [db |-> db, error |-> NoError, result |-> createErrorResponse(
               [code |-> "VOTE_VALIDATION_ERROR",
                message |-> "Multiple votes not allowed on this poll"])]
     ELSE IF res.error # NoError
       THEN [db |-> res.db, error |-> res.error,
             result |-> createErrorResponse(createDatabaseError(
               "Failed to submit votes: " \o res.error.message))]
     ELSE [db |-> res.db, error |-> NoError, result |-> createSuccessResponse]

\* The wrapped function: createPollServer and deletePollServer validate the
\* session with its activity and answer an error with the sanitized message,
\* up to the call of their operation; voteOnPollServer calls
\* submitVoteOperation with the caller's option ids and answers with its
\* success or the sanitized message of its error.
SecuredBody(s) ==
  /\ req[s].pc = "body"
  /\ LET r == req[s]
     IN IF ~r.gate.requireSession
          THEN \E optionIds \in GatewaySelections :
                 LET call == [r EXCEPT !.optionIds = optionIds,
                                !.gate = [r.gate EXCEPT !.stages = Append(@, "operation"),
                                                        !.ran = TRUE]]
                     out  == submitVoteOperation(polls, poll_options, votes, call, now)
                     answer == SecuredVoteResponse(out.result)
                 IN /\ polls' = out.db.polls
                    /\ poll_options' = out.db.poll_options
                    /\ votes' = out.db.votes
                    /\ req' = [req EXCEPT ![s] =
                         Inserted(call, out,
                           IF answer.success THEN createSuccessResponse
                           ELSE [success |-> FALSE, code |-> "", message |-> answer.error])]
          ELSE /\ \E a \in GatewayAnswers(SessionNow) :
                    LET e == validateSessionForSensitiveOperation(a, SessionNow)
                        g == [r.gate EXCEPT !.stages = Append(@, "activity"), !.error = e]
                    IN req' = [req EXCEPT ![s] =
                         IF e = Passed
                           THEN Finish([r EXCEPT !.gate = [g EXCEPT
                                           !.stages = Append(@, "operation"), !.ran = TRUE]],
                                       createSuccessResponse)
                           ELSE Finish([r EXCEPT !.gate = g],
                                       [success |-> FALSE, code |-> "",
                                        message |-> sanitizeErrorMessage(e).message])]
               /\ UNCHANGED <<polls, poll_options, votes>>
  /\ UNCHANGED <<optionSeq, now, calls, profiles, store, limitLog>>

(***************************************************************************)
(* Time.                                                                   *)
(***************************************************************************)
\* The clock is read only to compare it with an end date: its advance is
\* modelled while some poll has one.
Tick ==
  /\ now < MaxTime
  /\ \E p \in PollIds : polls[p].exists /\ polls[p].end_date # NoDate
  /\ now' = now + 1
  /\ UNCHANGED <<polls, poll_options, votes, optionSeq, req, calls>>
  /\ UNCHANGED sessionVars

(***************************************************************************)
(* Specification.                                                          *)
(***************************************************************************)
InitStore ==
  /\ \E status \in {"active", "ended", "draft"}, multiple \in BOOLEAN,
        login \in BOOLEAN, end \in {NoDate, EndDate} :
       polls = [p \in PollIds |->
         IF p = "p1"
           THEN [exists |-> TRUE, author_id |-> "u1", status |-> status,
                 allow_multiple_votes |-> multiple, require_login |-> login,
                 end_date |-> end, total_votes |-> 0]
           ELSE [exists |-> TRUE, author_id |-> "u2", status |-> "active",
                 allow_multiple_votes |-> TRUE, require_login |-> FALSE,
                 end_date |-> NoDate, total_votes |-> 0]]
  /\ poll_options = {[id |-> 1, poll_id |-> "p1", votes |-> 0, text |-> "old"],
                     [id |-> 2, poll_id |-> "p1", votes |-> 0, text |-> "old"],
                     [id |-> 3, poll_id |-> "p2", votes |-> 0, text |-> "old"]}
  /\ votes = {}
  /\ optionSeq = 3
  /\ now = 1
  /\ req = [s \in Slots |-> IdleReq]
  /\ calls = 0
  /\ store = [k \in LimitKeys |-> NoEntry]
  /\ limitLog = {}

\* Every user has a profiles row (created on signup by handle_new_user).
Init == InitStore /\ profiles = Users

\* One client at a time, every configuration and every input.
Next ==
  \/ SubmitVoteCall(1, Callers, Selections)
  \/ SubmitVoteCheck(1)
  \/ SubmitVoteInsert(1)
  \/ VoteOnPollServerCall(1, Callers, Selections)
  \/ VoteOnPollServerCheck(1)
  \/ VoteOnPollServerInsert(1)
  \/ VoteOnPollCall(1, Callers, Selections)
  \/ VoteOnPollInsert(1)
  \/ GetUserVotes(1, Callers)
  \/ GetUserVotesServer(1, Callers)
  \/ RemoveVote(1, Callers)
  \/ UpdatePollOptionsCall(1)
  \/ UpdatePollOptionsDelete(1)
  \/ UpdatePollOptionsInsert(1)
  \/ DeletePollCall(1)
  \/ DeletePollDelete(1)
  \/ Tick

Spec == Init /\ [][Next]_vars

\* Two clients at once on an active poll, each voting for options of the poll.
RaceCallers ==
  {[uid |-> "u1", ip |-> "ip1"], [uid |-> "u2", ip |-> "ip1"], [uid |-> NULL, ip |-> "ip1"]}

RaceSelections == {<<1>>, <<2>>, <<1, 2>>}

InitRace == Init /\ polls["p1"].status = "active"

NextRace ==
  \/ \E s \in Slots : SubmitVoteCall(s, RaceCallers, RaceSelections)
  \/ \E s \in Slots : SubmitVoteCheck(s)
  \/ \E s \in Slots : SubmitVoteInsert(s)
  \/ \E s \in Slots : VoteOnPollServerCall(s, RaceCallers, RaceSelections)
  \/ \E s \in Slots : VoteOnPollServerCheck(s)
  \/ \E s \in Slots : VoteOnPollServerInsert(s)
  \/ \E s \in Slots : VoteOnPollCall(s, RaceCallers, RaceSelections)
  \/ \E s \in Slots : VoteOnPollInsert(s)
  \/ Tick

SpecRace == InitRace /\ [][NextRace]_vars

\* One transport peer without session, sending one request after the other
\* with x-forwarded-for set to one value or to another.
HeaderCallers == [uid : {NULL}, ip : {"ip1", "ip2"}]

NextHeaders ==
  \/ SubmitVoteCall(1, HeaderCallers, Selections)
  \/ SubmitVoteCheck(1)
  \/ SubmitVoteInsert(1)
  \/ VoteOnPollServerCall(1, HeaderCallers, Selections)
  \/ VoteOnPollServerCheck(1)
  \/ VoteOnPollServerInsert(1)
  \/ Tick

SpecHeaders == Init /\ [][NextHeaders]_vars

\* Requests resolving their user at the same time, some of users that have
\* no profiles row yet.
InitAuth == InitStore /\ profiles \in SUBSET Users

NextAuth ==
  \/ \E s \in Slots : GetCurrentUserCall(s)
  \/ \E s \in Slots : GetCurrentUserCreate(s)

SpecAuth == InitAuth /\ [][NextAuth]_vars

\* Requests of two clients passing the rate limit guards of the vote
\* endpoint, as time passes.
InitLimit ==
  /\ Init
  /\ polls["p1"].status = "active" /\ polls["p1"].end_date = NoDate
  /\ ~polls["p1"].allow_multiple_votes /\ ~polls["p1"].require_login

NextLimit ==
  \/ \E s \in Slots : RateLimitMiddleware(s)
  \/ \E s \in Slots : WithRateLimit(s)
  \/ Cleanup
  \/ Advance

SpecLimit == InitLimit /\ [][NextLimit]_vars

\* Calls of the guards of the forgery token and of the session.
NextGuards ==
  \/ WithCSRFProtection(1)
  \/ WithSessionValidation(1)

SpecGuards == InitLimit /\ [][NextGuards]_vars

\* Calls of the secured entry points, one after the other, as time passes.
NextGateway ==
  \/ SecuredCall(1)
  \/ SecuredLimit(1)
  \/ SecuredBody(1)
  \/ Advance

SpecGateway == InitLimit /\ [][NextGateway]_vars

\* The management of polls, with votes being cast, one call after the other.
NextPolls ==
  \/ UpdatePollCall(1)
  \/ UpdatePollUpdate(1)
  \/ UpdatePollOptionsCall(1)
  \/ UpdatePollOptionsDelete(1)
  \/ UpdatePollOptionsInsert(1)
  \/ DeletePollCall(1)
  \/ DeletePollDelete(1)
  \/ ApiManageCall(1)
  \/ ApiDeletePollDelete(1)
  \/ ApiUpdatePollOptionsUpdate(1)
  \/ SubmitVoteCall(1, Callers, Selections)
  \/ SubmitVoteCheck(1)
  \/ SubmitVoteInsert(1)

SpecPolls == Init /\ [][NextPolls]_vars

\* Votes cast through submitVoteOperation, one call after the other, while
\* the query for the caller's prior votes may fail.
NextLookup ==
  \/ SubmitVoteCall(1, Callers, Selections)
  \/ SubmitVoteCheck(1)
  \/ SubmitVoteCheckFailed(1)
  \/ SubmitVoteInsert(1)

SpecLookup == InitLimit /\ [][NextLookup]_vars

\* A vote being cast through submitVoteOperation while the author updates
\* the poll and the clock passes its end date.
NextClose ==
  \/ SubmitVoteCall(1, Callers, Selections)
  \/ SubmitVoteCheck(1)
  \/ SubmitVoteInsert(1)
  \/ UpdatePollCall(2)
  \/ UpdatePollUpdate(2)
  \/ Tick

SpecClose == InitRace /\ [][NextClose]_vars

\* Votes being cast and the options of a poll being replaced, one call after
\* the other, while the insert of the new options may fail.
NextOptions ==
  \/ SubmitVoteCall(1, Callers, Selections)
  \/ SubmitVoteCheck(1)
  \/ SubmitVoteInsert(1)
  \/ UpdatePollOptionsCall(1)
  \/ UpdatePollOptionsDelete(1)
  \/ UpdatePollOptionsInsert(1)
  \/ UpdatePollOptionsInsertFailed(1)

SpecOptions == Init /\ [][NextOptions]_vars

\* Pairs of strings handed to constantTimeCompare, one after the other.
NextCompare == ConstantTimeCompare(1)

SpecCompare == InitLimit /\ [][NextCompare]_vars

\* Values of every shape handed to sanitizeErrorMessage, one after the other.
NextSanitize == SanitizeErrorMessage(1)

SpecSanitize == Init /\ [][NextSanitize]_vars

(***************************************************************************)
(* Properties.                                                             *)
(***************************************************************************)
VoteOps == {"submitVote", "voteOnPollServer", "voteOnPoll"}

Done(r) == r.pc = "done"

\* The selection is non-empty and names no option twice.
WellFormed(r) == validateVoteInput(r.optionIds)

\* The poll the caller read had an end date before the clock's value `time`.
ExpiredAt(r, time) == r.seen.end_date # NoDate /\ r.seen.end_date < time

\* The two calls ran at the same time.
Concurrent(a, b) == Identity(b) \in a.rivals /\ Identity(a) \in b.rivals

\* The sum of poll_options.votes over the options of a poll.
RECURSIVE SumVotes(_)
SumVotes(O) ==
  IF O = {} THEN 0
  ELSE LET o == CHOOSE x \in O : TRUE IN o.votes + SumVotes(O \ {o})

\* C1: of two concurrent submitVoteOperation calls for one poll by one
\* identity at most one succeeds; when the poll is single-select and the two
\* name different options for an authenticated user, the votes of the poll's
\* options sum to 1 afterwards.
C1_OneSuccessPerIdentity ==
  \A s, t \in Slots :
    ( /\ s # t
      /\ Done(req[s]) /\ Done(req[t])
      /\ req[s].op = "submitVote" /\ req[t].op = "submitVote"
      /\ req[s].pollId = req[t].pollId
      /\ Identity(req[s]) = Identity(req[t])
      /\ Concurrent(req[s], req[t]) )
    => /\ ~(req[s].result.success /\ req[t].result.success)
       /\ ( /\ ~req[s].seen.allow_multiple_votes
            /\ req[s].uid # NULL
            /\ Len(req[s].optionIds) = 1 /\ Len(req[t].optionIds) = 1
            /\ req[s].optionIds # req[t].optionIds
            /\ (req[s].result.success \/ req[t].result.success) )
          => SumVotes({o \in poll_options : o.poll_id = req[s].pollId}) = 1

\* C2: in every state (a statement and its trigger are one step, so none is
\* in flight), polls.total_votes of each poll is the number of votes rows of
\* the poll and poll_options.votes of each option the number of votes rows of
\* the option, whatever submissions, removals, option replacements and poll
\* deletions came before.
C2_CountersMatchRows ==
  /\ \A p \in PollIds :
       polls[p].exists =>
         polls[p].total_votes = Cardinality({v \in votes : v.poll_id = p})
  /\ \A o \in poll_options :
       o.votes = Cardinality({v \in votes : v.option_id = o.id})

\* A vote survived the replacement of the poll's options, and is counted.
C2_Witness ==
  /\ req[1].op = "updatePollOptions" /\ Done(req[1]) /\ req[1].result.success
  /\ votes # {}
  /\ polls["p1"].total_votes = 1

\* C3: a step of a submitVoteOperation call other than its successful
\* completion leaves polls, poll_options and votes as they were, and the
\* successful completion inserts one row for each option id of the call: an
\* error response never comes with some of the rows committed.
C3_ErrorLeavesStore ==
  [][\A s \in Slots :
       (req'[s] # req[s] /\ req'[s].op = "submitVote") =>
         IF Done(req'[s]) /\ req'[s].result.success
           THEN Cardinality(votes') = Cardinality(votes) + Len(req'[s].optionIds)
           ELSE UNCHANGED <<polls, poll_options, votes>>]_vars

\* A submission of two options, the second already voted for by the caller,
\* was rejected by the store with no row inserted.
C3_Witness ==
  \E s \in Slots :
    /\ req[s].op = "submitVote" /\ Done(req[s])
    /\ Len(req[s].optionIds) = 2
    /\ req[s].storeError = "23505"
    /\ ~req[s].result.success
    /\ Cardinality(votes) = 1

\* C4: a call of submitVoteOperation or voteOnPollServer by an identity that
\* has a committed vote row on the poll does not succeed and inserts nothing,
\* for an anonymous caller known by IP as for an authenticated one.
C4_RepeatDenied ==
  \A s \in Slots :
    (Done(req[s]) /\ req[s].op \in {"submitVote", "voteOnPollServer"} /\ req[s].prior)
      => ~req[s].result.success /\ req[s].wrote = 0

\* C5: a well-formed vote for one option of an active, unexpired poll that
\* does not require login, by an anonymous caller whose IP is "unknown", does
\* not succeed, inserts nothing, and is denied by the operation itself: its
\* denial is not an error of the store answering the insert.
C5_UnknownIpDenied ==
  \A s \in Slots :
    ( /\ Done(req[s]) /\ req[s].op \in {"submitVote", "voteOnPollServer"}
      /\ req[s].uid = NULL /\ req[s].ip = "unknown"
      /\ req[s].seen.status = "active" /\ ~req[s].seen.require_login
      /\ ~ExpiredAt(req[s], now)
      /\ Len(req[s].optionIds) = 1 )
    => /\ ~req[s].result.success
       /\ req[s].wrote = 0
       /\ req[s].storeError = ""

C7_LoginRequired ==
  \A s \in Slots :
    ( /\ Done(req[s]) /\ req[s].op \in VoteOps
      /\ req[s].uid = NULL
      /\ req[s].seen.require_login
      /\ req[s].seen.status = "active"
      /\ ~ExpiredAt(req[s], now)
      /\ Len(req[s].optionIds) = 1 )
    => /\ ~req[s].result.success
       /\ req[s].result.message = "Login required to vote on this poll"

\* The reason of the response of a submitVoteOperation call.
Reason(result) ==
  IF result.success THEN "none"
  ELSE IF result.code = "NOT_FOUND" THEN "not found"
  ELSE IF result.message = "Poll is not active" THEN "not active"
  ELSE IF result.message = "Poll has ended" THEN "expired"
  ELSE IF result.message = "Login required to vote on this poll" THEN "login required"
  ELSE IF result.code = "VALIDATION_ERROR" THEN "invalid selection"
  ELSE IF result.code = "VOTE_VALIDATION_ERROR" THEN "multiple votes"
  ELSE IF result.code = "VOTE_ELIGIBILITY_ERROR" THEN "already voted"
  ELSE "storage error"

\* The first failing check of a call on a poll without end date, in the
\* order: not found, not active, login required, identity unresolved, invalid
\* selection, multiple votes, already voted.
FirstFailing(r) ==
  IF r.seen = NoPoll THEN "not found"
  ELSE IF r.seen.status # "active" THEN "not active"
  ELSE IF r.seen.require_login /\ r.uid = NULL THEN "login required"
  ELSE IF r.uid = NULL /\ r.ip = "unknown" THEN "identity unresolved"
  ELSE IF ~WellFormed(r) \/ \E i \in 1..Len(r.optionIds) :
            \A o \in poll_options : o.id = r.optionIds[i] => o.poll_id # r.pollId
    THEN "invalid selection"
  ELSE IF ~r.seen.allow_multiple_votes /\ Len(r.optionIds) > 1 THEN "multiple votes"
  ELSE IF r.prior THEN "already voted"
  ELSE "none"

\* C8: the response of submitVoteOperation, on a poll without end date,
\* carries the reason of the first failing check in the order above.
C8_FirstFailingWins ==
  \A s \in Slots :
    (Done(req[s]) /\ req[s].op = "submitVote" /\ req[s].seen.end_date = NoDate)
      => Reason(req[s].result) = FirstFailing(req[s])

\* C9: a submission that the store rejects for a duplicate of a unique key
\* is answered with the already-voted denial.
C9_DuplicateIsAlreadyVoted ==
  \A s \in Slots :
    (Done(req[s]) /\ req[s].op = "submitVote" /\ req[s].storeError = "23505")
      => Reason(req[s].result) = "already voted"

\* The caller of r could vote when r was made, as far as the caller's own
\* state and the poll go.
Eligible(r) ==
  /\ r.seen.status = "active"
  /\ ~ExpiredAt(r, now)
  /\ (r.seen.require_login => r.uid # NULL)
  /\ WellFormed(r)
  /\ (r.seen.allow_multiple_votes \/ Len(r.optionIds) = 1)
  /\ ~r.prior

\* C10: a vote call by an eligible identity, made while calls of other
\* identities only were running, succeeds and inserts one row for each of its
\* option ids, and the counters equal the numbers of rows.
C10_DistinctIdentitiesSucceed ==
  /\ \A s \in Slots :
       ( /\ Done(req[s]) /\ req[s].op \in VoteOps
         /\ req[s].rivals # {} /\ Identity(req[s]) \notin req[s].rivals
         /\ Eligible(req[s]) )
       => req[s].result.success /\ req[s].wrote = Len(req[s].optionIds)
  /\ polls["p1"].total_votes = Cardinality({v \in votes : v.poll_id = "p1"})
  /\ \A o \in poll_options : o.votes = Cardinality({v \in votes : v.option_id = o.id})

\* Two identities voted for the same option at the same time, both with
\* success.
C10_Witness ==
  /\ Done(req[1]) /\ Done(req[2])
  /\ Concurrent(req[1], req[2])
  /\ Identity(req[1]) # Identity(req[2])
  /\ req[1].optionIds = req[2].optionIds
  /\ req[1].result.success /\ req[2].result.success
  /\ Cardinality(votes) = Len(req[1].optionIds) + Len(req[2].optionIds)

\* C11: every votes row has exactly one of voter_id and voter_ip set, whichever
\* entry point wrote it.
C11_ExactlyOneIdentity ==
  \A v \in votes : (v.voter_id # NULL) # (v.voter_ip # NULL)

\* C12: the option of every votes row is an option of the row's poll.
C12_OptionOfPoll ==
  \A v \in votes :
    \E o \in poll_options : o.id = v.option_id /\ o.poll_id = v.poll_id

\* The reasons of the denials made by the checks of a submission.
Denials ==
  {"not found", "not active", "expired", "login required", "invalid selection",
   "multiple votes", "already voted"}

\* C13: two submissions through the secured voteOnPollServer that are denied
\* for different reasons get different error texts.
C13_DenialsDistinct ==
  \A s, t \in Slots :
    ( /\ Done(req[s]) /\ Done(req[t])
      /\ req[s].op = "submitVote" /\ req[t].op = "submitVote"
      /\ Reason(req[s].result) \in Denials /\ Reason(req[t].result) \in Denials
      /\ Reason(req[s].result) # Reason(req[t].result) )
    => SecuredVoteResponse(req[s].result).error # SecuredVoteResponse(req[t].result).error

\* The message carries the text of an error of the store.
ContainsDriverText(message) ==
  \E e \in StoreErrors, prefix \in MessagePrefixes : message = prefix \o e.message

\* C14: the message of the response of a vote entry point never carries the
\* text of the store's error.
C14_NoDriverText ==
  \A s \in Slots :
    (Done(req[s]) /\ req[s].op \in VoteOps) => ~ContainsDriverText(req[s].result.message)

\* The poll had an anonymous votes row before the call r was made (calls made
\* one after the other).
PeerPrior(r) ==
  Cardinality({v \in votes : v.poll_id = r.pollId /\ v.voter_id = NULL}) > r.wrote

\* C15: when all requests come from one transport peer without session, a
\* voteOnPollServer call made after the peer has voted on the poll is denied,
\* whatever the x-forwarded-for header of either request.
C15_HeaderIndependent ==
  \A s \in Slots :
    ( /\ Done(req[s]) /\ req[s].op = "voteOnPollServer"
      /\ req[s].uid = NULL
      /\ PeerPrior(req[s]) )
    => ~req[s].result.success

\* The texts of the already-voted denials.
AlreadyVotedTexts ==
  {"You have already voted on this poll",
   "You have already voted from this IP address",
   "You have already voted on this poll from this IP address"}

\* C16: a call is denied as already voted only if the caller's own identity
\* had votes rows on the poll (by user id for a session, anonymous rows of the
\* IP without one), and getUserVotesOperation returns the option ids of the
\* rows of the caller's own identity and of no other.
C16_IdentitiesDisjoint ==
  \A s \in Slots :
    /\ ( /\ Done(req[s]) /\ req[s].op \in {"submitVote", "voteOnPollServer"}
         /\ req[s].result.message \in AlreadyVotedTexts )
       => req[s].prior
    /\ (Done(req[s]) /\ req[s].op = "getUserVotes" /\ req[s].result.success)
       => req[s].data =
            {v.option_id : v \in IdentityVotes(votes, req[s].pollId, req[s])}

\* An anonymous caller asked for its votes on a poll on which an authenticated
\* user has voted, and got none.
C16_Witness ==
  \E s \in Slots :
    /\ Done(req[s]) /\ req[s].op = "getUserVotes" /\ req[s].result.success
    /\ req[s].uid = NULL /\ req[s].ip = "ip1"
    /\ req[s].data = {}
    /\ \E v \in votes : v.poll_id = req[s].pollId /\ v.voter_id # NULL

\* C17: for a request with a valid authenticated session, getCurrentUser
\* returns the authenticated identity of the session's user.
C17_SessionIsAuthenticated ==
  \A s \in Slots :
    (Done(req[s]) /\ req[s].op = "getCurrentUser" /\ req[s].uid # NULL)
      => req[s].user.isAuthenticated /\ req[s].user.id = req[s].uid

\* The calls of limit for the key of e that returned the resetTime of e: the
\* calls of one window.
SameWindow(e) == {f \in limitLog : f.key = e.key /\ f.resetTime = e.resetTime}

\* C18: of the calls of limit for one key in one window at most RateLimit
\* return success; a call made from the window's start to its resetTime
\* belongs to the window, and a refused one is refused because RateLimit calls
\* of the window were admitted, with remaining 0 and the window's resetTime.
C18_AtMostLimit ==
  \A e \in limitLog :
    /\ Cardinality({f \in SameWindow(e) : f.success}) <= RateLimit
    /\ \A f \in limitLog :
         ( /\ f.key = e.key
           /\ f.time >= e.resetTime - WindowMs /\ f.time <= e.resetTime )
         => f.resetTime = e.resetTime
    /\ ~e.success =>
         /\ e.remaining = 0
         /\ Cardinality({f \in SameWindow(e) : f.success /\ f.call < e.call}) = RateLimit

\* A key was admitted RateLimit times in a window and then refused.
C18_Witness ==
  \E e \in limitLog :
    /\ ~e.success
    /\ Cardinality({f \in SameWindow(e) : f.success}) = RateLimit
    /\ store[e.key].count = RateLimit

LimitOps == {"rateLimitMiddleware", "withRateLimit"}

\* C19: when the limiter throws, the guard lets the request through to the
\* operation it guards.
C19_FailOpen ==
  \A s \in Slots :
    (Done(req[s]) /\ req[s].op \in LimitOps /\ req[s].guard.failed)
      => req[s].guard.through

\* C20: a request refused by the limiter gets a retry-after value between 0
\* and the length of the window, in seconds.
C20_RetryAfter ==
  \A s \in Slots :
    ( /\ Done(req[s]) /\ req[s].op \in LimitOps
      /\ ~req[s].guard.failed /\ ~req[s].guard.success )
    => /\ req[s].guard.hasRetryAfter
       /\ req[s].guard.retryAfter >= 0
       /\ req[s].guard.retryAfter <= Ceil(WindowMs, 1000)

SecuredOps == {e.name : e \in SecuredEntries}

\* The position of a stage among the stages a call ran, 0 if it did not run.
StageAt(r, stage) ==
  IF \E i \in 1..Len(r.gate.stages) : r.gate.stages[i] = stage
    THEN CHOOSE i \in 1..Len(r.gate.stages) : r.gate.stages[i] = stage
    ELSE 0

CsrfTexts == {"CSRF token missing", "Invalid CSRF token", "CSRF validation failed"}

\* C21: a secured entry point runs the rate limit check before the forgery
\* token check and that before the session check: a call whose key has used
\* up its window is refused as rate limited with no token looked at, and a
\* call refused for its token has been counted by the limiter.
C21_StageOrder ==
  \A s \in Slots :
    LET r == req[s]
    IN (Done(r) /\ r.op \in SecuredOps) =>
         /\ StageAt(r, "csrf") # 0 => StageAt(r, "rateLimit") \in 1..(StageAt(r, "csrf") - 1)
         /\ r.gate.overLimit =>
              /\ r.gate.error.message = "Rate limit exceeded. Please try again later."
              /\ StageAt(r, "csrf") = 0
         /\ r.gate.error.message \in CsrfTexts => StageAt(r, "rateLimit") # 0

RECURSIVE JoinWith(_, _)
\* The strings of a sequence put together with sep between them.
JoinWith(parts, sep) ==
  IF parts = <<>> THEN <<>>
  ELSE IF Len(parts) = 1 THEN parts[1]
  ELSE parts[1] \o <<sep>> \o JoinWith(Tail(parts), sep)

\* The csrf-token cookie of a request as it was sent: all that follows the
\* first '=' of the last cookie of that name.
SentCookieToken(h) ==
  IF h.cookieFail \/ ~h.cookie.present THEN Absent
  ELSE LET pieces == split(h.cookie.chars, ";")
           parts  == [i \in 1..Len(pieces) |-> split(trim(pieces[i]), "=")]
           named  == {i \in 1..Len(pieces) : parts[i][1] = TOKEN_COOKIE}
       IN IF named = {} THEN Absent
          ELSE LET last == CHOOSE i \in named : \A j \in named : j <= i
               IN IF Len(parts[last]) < 2 THEN Absent
                  ELSE Str(JoinWith(Tail(parts[last]), "="))

\* The x-csrf-token header of a request as it was sent.
SentHeaderToken(h) == IF h.headerFail THEN Absent ELSE h.header

\* Both tokens are there and are the same string.
SameTokens(h) ==
  /\ Truthy(SentHeaderToken(h))
  /\ Truthy(SentCookieToken(h))
  /\ SentHeaderToken(h).chars = SentCookieToken(h).chars

\* A call of a function wrapped by withCSRFProtection that has returned.
CsrfCall(r) == Done(r) /\ r.op = "withCSRFProtection"

PlainCookieToken(h) ==
  SentCookieToken(h).present => \A i \in 1..Len(SentCookieToken(h).chars) :
                                  SentCookieToken(h).chars[i] # "="

GuardOps == {"withCSRFProtection", "withSessionValidation"}

\* The call asked the auth provider about the session.
AskedSession(r) ==
  \E i \in 1..Len(r.gate.stages) : r.gate.stages[i] = "session"

\* A step inside the call's stages threw or returned an error: headers()
\* threw, or the auth provider threw, returned an error, or returned no user
\* or no session.
FailedInside(r) ==
  \/ r.op = "withCSRFProtection"
       /\ (r.gate.headers.headerFail \/ r.gate.headers.cookieFail)
  \/ /\ AskedSession(r)
     /\ \/ r.gate.answer.throws
        \/ r.gate.answer.userError \/ r.gate.answer.sessionError
        \/ ~r.gate.answer.user \/ ~r.gate.answer.session.present

\* C23: a forgery token stage or session stage in which a step failed ends
\* by throwing an authentication error, and the guarded function is not run.
C23_FailClosed ==
  \A s \in Slots :
    (Done(req[s]) /\ req[s].op \in GuardOps /\ FailedInside(req[s])) =>
      /\ req[s].gate.error.code = "AUTHENTICATION_ERROR"
      /\ ~req[s].gate.ran
      /\ ~req[s].result.success

\* The auth provider returned an error together with a user and a session,
\* and the session stage refused the call.
C23_Witness ==
  \E s \in Slots :
    /\ Done(req[s]) /\ req[s].op = "withSessionValidation"
    /\ req[s].gate.answer.userError
    /\ req[s].gate.answer.user /\ req[s].gate.answer.session.present
    /\ SessionNow - req[s].gate.answer.session.expires_at <= MAX_SESSION_AGE
    /\ ~req[s].gate.ran
    /\ req[s].gate.error.code = "AUTHENTICATION_ERROR"

\* The session of the call is fresh: established at most MAX_SESSION_AGE ago
\* and, where activity counts, last used less than MAX_IDLE_TIME ago.
Fresh(r) ==
  /\ r.gate.time - r.gate.answer.session.established <= MAX_SESSION_AGE
  /\ (r.op = "withSessionValidation" /\ r.gate.requireSession) =>
       r.gate.time - r.gate.answer.session.lastActivity < MAX_IDLE_TIME

\* C24: a session check to which the auth provider gave a user and a session
\* lets the call through exactly if the session is fresh.
C24_FreshOnly ==
  \A s \in Slots :
    (Done(req[s]) /\ req[s].op \in GuardOps /\ AskedSession(req[s])
       /\ ~FailedInside(req[s]))
    => (req[s].gate.ran <=> Fresh(req[s]))

\* C25: no step takes the stored status of a poll from 'ended' back to
\* 'active' or 'draft'.
C25_EndedStaysEnded ==
  [][\A p \in PollIds :
       polls[p].status = "ended" => polls'[p].status \notin {"active", "draft"}]_vars

\* The functions that modify or delete a poll.
ManageOps == UpdateOps \cup ApiOps \cup {"updatePollOptions", "deletePoll"}

\* The caller of r has no session or is not the author of r's poll.
NotAuthor(P, r) == r.uid = NULL \/ P[r.pollId].author_id # r.uid

\* C26: a step of a call that modifies or deletes a poll, made without a
\* session or by another user than the poll's author, is the call's return
\* with an error and leaves the poll, its options and its votes as they were.
C26_AuthorOnly ==
  [][\A s \in Slots :
       (req'[s] # req[s] /\ req'[s].op \in ManageOps /\ NotAuthor(polls, req'[s])) =>
         /\ Done(req'[s])
         /\ ~req'[s].result.success
         /\ UNCHANGED <<polls, poll_options, votes>>]_vars

\* Another user than the author called a function that deletes the poll or
\* replaces its options, on a poll that has votes, and got an error.
C26_Witness ==
  \E s \in Slots :
    /\ Done(req[s]) /\ req[s].op \in {"deletePoll", "apiDeletePoll", "updatePollOptions"}
    /\ req[s].uid # NULL
    /\ polls[req[s].pollId].exists /\ polls[req[s].pollId].author_id # req[s].uid
    /\ \E v \in votes : v.poll_id = req[s].pollId
    /\ ~req[s].result.success

UserVotesOps == UserVotesServerOps \cup {"getUserVotes"}

\* C27: a reading of the caller's votes on a poll succeeds and returns the
\* option ids of the votes rows of the caller's identity on that poll: none
\* if the identity has not voted, none if the caller has no session and its
\* IP is 'unknown'.
C27_OwnVotes ==
  \A s \in Slots :
    (Done(req[s]) /\ req[s].op \in UserVotesOps) =>
      /\ req[s].result.success
      /\ req[s].data = {v.option_id : v \in IdentityVotes(votes, req[s].pollId, req[s])}

\* The operations of the vote engine.
VoteEngineOps == VoteOps \cup UserVotesOps \cup {"removeVote"}

\* The votes row v belongs to the identity of the call r.
OwnedBy(v, r) == IF r.uid # NULL THEN v.voter_id = r.uid ELSE v.voter_ip = r.ip

SafePairs ==
  {[code |-> "NOT_FOUND", message |-> "The requested resource was not found"],
   [code |-> "VALIDATION_ERROR", message |-> "The request contains invalid data"],
   [code |-> "DATABASE_ERROR", message |-> "A database error occurred"],
   [code |-> "CONFLICT", message |-> "This resource already exists"],
   [code |-> "AUTHORIZATION_ERROR",
    message |-> "You do not have permission to perform this action"],
   [code |-> "TIMEOUT_ERROR", message |-> "The request timed out"],
   [code |-> "INTERNAL_ERROR", message |-> "An unexpected error occurred"]}

\* The code of the first rule that matches the caught value.
FirstRule(error) ==
  CASE error.code = "PGRST116" -> "NOT_FOUND"
    [] error.code # "PGRST116" /\ StartsWith(error.code, "23") -> "VALIDATION_ERROR"
    [] error.code # "PGRST116" /\ StartsWith(error.code, "42") -> "DATABASE_ERROR"
    [] OTHER ->
         IF Includes(error.message, "duplicate key") THEN "CONFLICT"
         ELSE IF Includes(error.message, "permission denied") THEN "AUTHORIZATION_ERROR"
         ELSE IF Includes(error.message, "timeout") THEN "TIMEOUT_ERROR"
         ELSE "INTERNAL_ERROR"

\* C29: sanitizeErrorMessage answers with one of the fixed pairs of code and
\* message, the one of the first rule that matches (the code PGRST116, a code
\* starting with 23, a code starting with 42, then a message containing
\* 'duplicate key', 'permission denied', 'timeout', else the internal error),
\* and the message of the caught value is no part of the answer.
C29_SafePairByFirstRule ==
  \A s \in Slots :
    (Done(req[s]) /\ req[s].op = "sanitizeErrorMessage") =>
      LET out == [code |-> req[s].result.code, message |-> req[s].result.message]
      IN /\ out \in SafePairs
         /\ out.code = FirstRule(req[s].caught)
         /\ out.message # req[s].caught.message
         /\ \A error \in CaughtErrors :
              FirstRule(error) = out.code => sanitizeErrorMessage(error) = out

\* A value with a code starting with 23 and a message containing
\* 'duplicate key' has been sanitized.
C29_Witness ==
  \E s \in Slots :
    /\ Done(req[s]) /\ req[s].op = "sanitizeErrorMessage"
    /\ StartsWith(req[s].caught.code, "23")
    /\ Includes(req[s].caught.message, "duplicate key")
    /\ req[s].result.code = "VALIDATION_ERROR"

\* The calls the multiple-votes rule is about: the poll read allows one
\* option per voter and has no end date, the call names more than one option,
\* and every check before the rule in the order of FirstFailing passes.
SeveralOnSingle(r) ==
  /\ Done(r) /\ r.seen # NoPoll /\ r.seen.end_date = NoDate
  /\ ~r.seen.allow_multiple_votes /\ Len(r.optionIds) > 1
  /\ FirstFailing(r) = "multiple votes"

MultipleVotesDenied(r) ==
  /\ ~r.result.success
  /\ r.result.message = "Multiple votes not allowed on this poll"
  /\ r.wrote = 0

\* C30: a submission of more than one option on a poll that does not allow
\* multiple votes, for which no earlier check fails, is denied with the
\* reason that multiple votes are not allowed, and inserts no votes row.
C30_MultipleVotesDenied ==
  \A s \in Slots :
    (req[s].op \in {"submitVote", "voteOnPollServer"} /\ SeveralOnSingle(req[s]))
      => MultipleVotesDenied(req[s])

\* The same for voteOnPollServer alone.
C30_ServerActionOnly ==
  \A s \in Slots :
    (req[s].op = "voteOnPollServer" /\ SeveralOnSingle(req[s]))
      => MultipleVotesDenied(req[s])

\* Such a submission never succeeds and never inserts a votes row.
C30_NoRowInserted ==
  \A s \in Slots :
    (req[s].op \in {"submitVote", "voteOnPollServer"} /\ SeveralOnSingle(req[s]))
      => ~req[s].result.success /\ req[s].wrote = 0

\* The calls the selection rule is about: the list of option ids is empty or
\* names an option twice, the poll read has no end date, and every check
\* before the rule in the order of FirstFailing passes.
BadSelection(r) ==
  /\ Done(r) /\ r.op \in VoteOps
  /\ ~WellFormed(r)
  /\ r.seen # NoPoll /\ r.seen.end_date = NoDate
  /\ FirstFailing(r) = "invalid selection"

\* C31: a submission with an empty list of option ids or with an option id
\* twice, for which no earlier check fails, is denied as an invalid selection
\* and inserts no votes row, through submitVoteOperation, voteOnPollServer
\* and voteOnPoll, also on a poll that allows multiple votes.
C31_BadSelectionDenied ==
  \A s \in Slots :
    BadSelection(req[s]) =>
      /\ ~req[s].result.success
      /\ Reason(req[s].result) = "invalid selection"
      /\ req[s].wrote = 0

\* The same for submitVoteOperation alone.
C31_SubmitVoteOnly ==
  \A s \in Slots :
    (BadSelection(req[s]) /\ req[s].op = "submitVote") =>
      /\ ~req[s].result.success
      /\ Reason(req[s].result) = "invalid selection"
      /\ req[s].wrote = 0

\* Such a submission is refused, whatever the reason.
C31_BadSelectionRefused ==
  \A s \in Slots : BadSelection(req[s]) => ~req[s].result.success

\* Such a submission inserts no votes row.
C31_BadSelectionNoRow ==
  \A s \in Slots : BadSelection(req[s]) => req[s].wrote = 0

\* C32: a call of limit made later than the resetTime stored for its key
\* succeeds, starts a new window (count 1, resetTime = now + windowMs) and
\* reports remaining = limit - 1; a call made exactly at the stored
\* resetTime is judged against the old window: it keeps the resetTime and is
\* admitted only if fewer than limit calls of the window were.
C32_AdmittedAfterReset ==
  [][\A e \in limitLog' \ limitLog :
       LET old == store[e.key] IN
       /\ (old.present /\ old.resetTime < DateNow) =>
            /\ e.success /\ e.remaining = RateLimit - 1
            /\ e.resetTime = DateNow + WindowMs
            /\ store'[e.key] =
                 [present |-> TRUE, count |-> 1, resetTime |-> DateNow + WindowMs]
       /\ (old.present /\ old.resetTime = DateNow) =>
            /\ e.resetTime = old.resetTime
            /\ store'[e.key].resetTime = old.resetTime
            /\ e.success <=> old.count < RateLimit]_vars

\* A key was refused in one window and admitted in a later one.
C32_Witness ==
  \E e, f \in limitLog :
    /\ e.key = f.key /\ e.call < f.call
    /\ ~e.success /\ f.success /\ f.time > e.resetTime
    /\ f.remaining = RateLimit - 1 /\ f.resetTime = f.time + WindowMs

\* A key that had used up its window was refused exactly at the resetTime.
C32_WitnessAtReset ==
  \E e \in limitLog : ~e.success /\ e.time = e.resetTime

\* The Map after the calls of limit numbered up to n, made one after the
\* other at their times with no cleanup in between.
RECURSIVE WithoutCleanup(_)
WithoutCleanup(n) ==
  IF n = 0 THEN [k \in LimitKeys |-> NoEntry]
  ELSE IF \E e \in limitLog : e.call = n
    THEN LET e == CHOOSE f \in limitLog : f.call = n
         IN limit(WithoutCleanup(n - 1), e.key, RateLimit, WindowMs, e.time).store
    ELSE WithoutCleanup(n - 1)

\* C33: every call of limit returned the success, remaining and resetTime
\* that the same call returns when the calls before it are made with no
\* cleanup at all.
C33_CleanupUnobservable ==
  \A e \in limitLog :
    LET res == limit(WithoutCleanup(e.call - 1), e.key, RateLimit, WindowMs, e.time)
    IN /\ res.success = e.success
       /\ res.remaining = e.remaining
       /\ res.resetTime = e.resetTime

\* The cleanup has deleted the entry of a key that was limited before and
\* that the Map would still hold without cleanup, and a call was made since.
C33_Witness ==
  \E e, f \in limitLog :
    /\ ~store[e.key].present
    /\ WithoutCleanup(calls)[e.key].present
    /\ f.call > e.call /\ f.time > e.resetTime

\* The call was turned away by the forgery token stage or by the rate limit
\* stage of its entry point.
TurnedAway(r) ==
  /\ r.gate.error # Passed
  /\ r.gate.stages # <<>>
  /\ r.gate.stages[Len(r.gate.stages)] \in {"csrf", "rateLimit"}

\* C34: a step in which a call of voteOnPollServer is turned away by the
\* rate limit stage or by the forgery token stage leaves votes, the polls'
\* total_votes and the options' votes as they are, the wrapped function
\* never having run; and a step that changes them is the wrapped function
\* of a call that passed both stages.
C34_RejectedHasNoEffect ==
  [][/\ \A s \in Slots :
          ( /\ req'[s] # req[s] /\ req'[s].op = "voteOnPollServer"
            /\ req'[s].gate.entry = "vote" /\ TurnedAway(req'[s]) )
          => /\ ~req'[s].gate.ran
             /\ votes' = votes /\ polls' = polls /\ poll_options' = poll_options
     /\ (votes' # votes \/ polls' # polls \/ poll_options' # poll_options) =>
          \E s \in Slots :
            /\ req[s].pc = "body" /\ Done(req'[s])
            /\ req'[s].gate.ran /\ req'[s].gate.error = Passed
            /\ req'[s].gate.stages = <<"csrf", "rateLimit", "operation">>
            /\ req'[s].guard.through]_vars

\* After a vote through voteOnPollServer was counted, a call of it was
\* refused by the rate limit stage.
C34_Witness ==
  \E s \in Slots :
    /\ Done(req[s]) /\ req[s].op = "voteOnPollServer" /\ req[s].gate.entry = "vote"
    /\ TurnedAway(req[s]) /\ ~req[s].guard.success
    /\ votes # {}
    /\ \E p \in PollIds : polls[p].total_votes > 0

\* A call of voteOnPollServer was refused for its forgery token.
C34_WitnessToken ==
  \E s \in Slots :
    /\ Done(req[s]) /\ req[s].op = "voteOnPollServer" /\ req[s].gate.entry = "vote"
    /\ TurnedAway(req[s]) /\ req[s].gate.error.message \in CsrfTexts

\* The auth provider gave the call a session whose expires_at is before the
\* time of the call.
PastExpiry(r) ==
  /\ AskedSession(r) /\ ~FailedInside(r)
  /\ r.gate.answer.session.expires_at # NoStamp
  /\ r.gate.answer.session.expires_at < r.gate.time

\* C35: a session check given a session whose expires_at is in the past
\* throws an authentication error and the guarded function is not run.
C35_PastExpiryRejected ==
  \A s \in Slots :
    (Done(req[s]) /\ req[s].op \in GuardOps /\ PastExpiry(req[s])) =>
      /\ req[s].gate.error.code = "AUTHENTICATION_ERROR"
      /\ ~req[s].gate.ran

\* The same for sessions whose expires_at is more than MAX_SESSION_AGE ago.
C35_LongPastExpiryRejected ==
  \A s \in Slots :
    ( /\ Done(req[s]) /\ req[s].op \in GuardOps /\ PastExpiry(req[s])
      /\ req[s].gate.time - req[s].gate.answer.session.expires_at > MAX_SESSION_AGE ) =>
      /\ req[s].gate.error.code = "AUTHENTICATION_ERROR"
      /\ ~req[s].gate.ran

\* The query for the prior votes of the call failed, or could not be
\* answered for the caller's IP.
LookupFailed(r) ==
  \/ r.lookup # NoError
  \/ r.uid = NULL /\ ~IsInet(r.ip)

\* C36: a submitVoteOperation call whose query for the caller's prior votes
\* failed is refused and inserts no votes row.
C36_LookupFailureRefused ==
  \A s \in Slots :
    (Done(req[s]) /\ req[s].op = "submitVote" /\ LookupFailed(req[s])) =>
      /\ ~req[s].result.success
      /\ req[s].wrote = 0

\* The same for callers that have a vote on the poll.
C36_PriorVoterRefused ==
  \A s \in Slots :
    ( /\ Done(req[s]) /\ req[s].op = "submitVote" /\ LookupFailed(req[s])
      /\ req[s].prior ) =>
      /\ ~req[s].result.success
      /\ req[s].wrote = 0

\* The stored row of the poll accepts votes at the time `time`.
Accepting(P, p, time) ==
  /\ P[p].exists /\ P[p].status = "active"
  /\ ~(P[p].end_date # NoDate /\ P[p].end_date < time)

\* C37: every votes row is committed on a poll whose stored status is
\* 'active' and whose end date has not passed when the insert commits.
C37_CommitOnlyWhileAccepting ==
  [][\A v \in votes' \ votes : Accepting(polls, v.poll_id, now)]_vars

\* The same for the status alone.
C37_CommitOnlyWhileActive ==
  [][\A v \in votes' \ votes : polls[v.poll_id].status = "active"]_vars

\* The same for the end date alone.
C37_CommitOnlyBeforeEnd ==
  [][\A v \in votes' \ votes :
       ~(polls[v.poll_id].end_date # NoDate /\ polls[v.poll_id].end_date < now)]_vars

\* The votes rows of the identity of the call r on the poll and option that
\* r names.
OwnRows(V, r) ==
  {v \in V : v.poll_id = r.pollId /\ v.option_id = r.optionIds[1] /\ OwnedBy(v, r)}

\* C38: removeVoteOperation undoes the identity's vote: a call that returns
\* success has taken away the identity's votes rows on the poll and option
\* and nothing else, and the poll's total_votes and the option's votes are
\* lower by their number, so that after a vote and its removal the store is
\* what it was and the identity has no vote on the poll left from them.
C38_RemoveUndoesVote ==
  [][\A s \in Slots :
       ( /\ req'[s] # req[s] /\ req'[s].op = "removeVote"
         /\ req'[s].result.success )
       => LET r == req'[s]
              n == Cardinality(OwnRows(votes, r))
          IN /\ votes' = votes \ OwnRows(votes, r)
             /\ polls'[r.pollId].total_votes = polls[r.pollId].total_votes - n
             /\ \A o \in poll_options' : \E before \in poll_options :
                  /\ before.id = o.id
                  /\ o.votes = IF o.id = r.optionIds[1] /\ o.poll_id = r.pollId
                                 THEN before.votes - n ELSE before.votes]_vars

\* C39: when updatePollOptionsOperation has returned an error response, the
\* options of the poll, the votes on it and its total_votes are what they
\* were when it was called.
C39_AllOrNothing ==
  \A s \in Slots :
    (Done(req[s]) /\ req[s].op = "updatePollOptions" /\ ~req[s].result.success) =>
      Snapshot(polls, poll_options, votes, req[s].pollId) = req[s].before

\* The same for the calls refused before their first write: for their input
\* or because the caller is not the author.
C39_RefusedEarly ==
  \A s \in Slots :
    ( /\ Done(req[s]) /\ req[s].op = "updatePollOptions" /\ ~req[s].result.success
      /\ req[s].result.code \in {"VALIDATION_ERROR", "NOT_FOUND", "AUTHORIZATION_ERROR"} ) =>
      Snapshot(polls, poll_options, votes, req[s].pollId) = req[s].before

\* C40: constantTimeCompare answers true exactly if the two strings are the
\* same string.
C40_TrueIffSame ==
  \A s \in Slots :
    (Done(req[s]) /\ req[s].op = "constantTimeCompare") =>
      (req[s].compared.equal <=> req[s].compared.a = req[s].compared.b)

\* Two different strings of the same characters in another order were
\* compared and found different.
C40_Witness ==
  \E s \in Slots :
    /\ Done(req[s]) /\ req[s].op = "constantTimeCompare"
    /\ req[s].compared.a = <<"a", "b">> /\ req[s].compared.b = <<"b", "a">>
    /\ ~req[s].compared.equal

\* The empty string was compared with itself and found the same.
C40_WitnessEmpty ==
  \E s \in Slots :
    /\ Done(req[s]) /\ req[s].op = "constantTimeCompare"
    /\ req[s].compared.a = <<>> /\ req[s].compared.b = <<>>
    /\ req[s].compared.equal

====
